---- MODULE Spec2Model ----
(***************************************************************************)
(* A model of the fe2o3-amqp connection layer: the protocol-header         *)
(* exchange of the transport (transport/mod.rs) and the connection         *)
(* engine (connection/engine.rs): ConnectionEngine::open and the four      *)
(* event sources of ConnectionEngine::event_loop.                          *)
(*                                                                         *)
(* The Connection endpoint the engine drives (the implementor of           *)
(* endpoint::Connection: send_open, send_close, on_incoming_open, ...)     *)
(* is not part of the sources at hand; its operators are modelled from     *)
(* the specification's section 4.4 and say so in their comments.           *)
(***************************************************************************)
EXTENDS Integers, Sequences, FiniteSets, TLC

\* ------------------------------------------------------------------------
\* Bounds of the model
\* ------------------------------------------------------------------------

\* channels / session ids are 0..MaxChannel
MaxChannel == 1
\* events from outside the engine in one run of the event loop: incoming
\* frames, control commands, frames submitted by sessions, heartbeat ticks
MaxEvents == 3

\* how long the clock of the transport's stream runs
MaxTime == 3

\* how many items the codec holds ready at once
MaxFramed == 1

\* how many times the stream is polled
MaxPolls == 3

\* how many frames the server sends in a SASL negotiation
MaxSaslFrames == 4

\* how many operations are called on a link
MaxLinkOps == 3

\* how many times the coordinator's recv() returns
MaxDeliveries == 3

\* ------------------------------------------------------------------------
\* Program constants
\* ------------------------------------------------------------------------

\* "Prior to any explicit negotiation, the maximum frame size is 512
\* (MIN-MAX-FRAME-SIZE)"
MinMaxFrameSize == 512

\* ------------------------------------------------------------------------
\* Values
\* ------------------------------------------------------------------------

\* connection::ConnectionState, the states the sources at hand name and the
\* specification's table (section 4.4) lists
ConnectionState ==
    { "Start", "HeaderReceived", "HeaderSent", "HeaderExchange",
      "OpenReceived", "OpenSent", "Opened",
      "CloseReceived", "CloseSent", "End" }

Channels == 0 .. MaxChannel
NoChannel == -1
NoSession == -1

\* the max-frame-size values an Open declares in this model
FrameSizes == { 256, 1024 }
\* the idle-time-out values a remote Open declares (0 stands for None)
IdleTimeOuts == { 0, 1000 }

\* ---- protocol headers -------------------------------------------------

\* ProtocolHeader { id, major, minor, revision }
Header(id, major, minor, revision) ==
    [ id |-> id, major |-> major, minor |-> minor, revision |-> revision ]

\* ProtocolId: 0x00 AMQP, 0x01 AMQP over TLS, 0x03 AMQP over SASL
ProtocolIds == { 0, 1, 3 }

HeaderAmqp == Header(0, 1, 0, 0)
HeaderTls == Header(1, 1, 0, 0)
HeaderSasl == Header(3, 1, 0, 0)

\* "AMQP" in ASCII
Magic == << 65, 77, 81, 80 >>

\* impl From<ProtocolHeader> for [u8; 8]
HeaderToBytes(h) == Magic \o << h.id, h.major, h.minor, h.revision >>

\* impl TryFrom<[u8; 8]> for ProtocolHeader: whether the bytes parse
HeaderParses(buf) ==
    /\ SubSeq(buf, 1, 4) = Magic
    /\ buf[5] \in ProtocolIds

\* impl TryFrom<[u8; 8]> for ProtocolHeader: the header parsed
HeaderFromBytes(buf) == Header(buf[5], buf[6], buf[7], buf[8])

\* the 8-byte answers of the peer in this model: each of the three headers,
\* an AMQP header of another revision, an unknown protocol id, and bytes
\* that are no AMQP header at all ("HTTP/1.1")
InboundBufs ==
    { HeaderToBytes(HeaderAmqp), HeaderToBytes(HeaderTls), HeaderToBytes(HeaderSasl),
      HeaderToBytes(Header(0, 1, 0, 1)),
      Magic \o << 9, 1, 0, 0 >>,
      << 72, 84, 84, 80, 47, 49, 46, 49 >> }

NoBuf == << >>

\* no header returned
NoHeader == Header(NoChannel, 0, 0, 0)

\* ---- results -----------------------------------------------------------

\* Result<_, Error>: the error condition, "" for Ok
Ok == ""
ErrIllegalState == "amqp:illegal-state"
ErrNotFound == "amqp:not-found"
ErrNotAllowed == "amqp:not-allowed"
ErrNotImplemented == "amqp:not-implemented"
ErrFrameSize == "amqp:frame-size-too-small"
ErrDecode == "amqp:decode-error"
ErrIdleTimeout == "idle-timeout"
ErrIo == "io"
ErrChannelMax == "channel-max-reached"

\* a handler has not run yet
NoResult == "none"

\* ---- frames ------------------------------------------------------------

\* frames::amqp::FrameBody
Performatives ==
    { "Open", "Begin", "Attach", "Flow", "Transfer", "Disposition",
      "Detach", "End", "Close", "Empty" }

\* session::SessionFrameBody
SessionPerformatives ==
    { "Begin", "Attach", "Flow", "Transfer", "Disposition", "Detach", "End" }

\* the performatives ConnectionEngine::on_incoming hands to forward_to_session
LinkPerformatives == { "Attach", "Flow", "Transfer", "Disposition", "Detach" }

\* A frame body: the performative and the fields the connection layer reads.
\*   remote_channel  Begin.remote_channel (NoChannel for None)
\*   max_frame_size  Open.max_frame_size
\*   idle_time_out   Open.idle_time_out (0 for None)
\*   error           Close.error ("" for None)
\*   more            Transfer.more (FALSE for every other performative)
Body(perf, remote_channel, max_frame_size, idle_time_out, error) ==
    [ perf |-> perf, remote_channel |-> remote_channel,
      max_frame_size |-> max_frame_size, idle_time_out |-> idle_time_out,
      error |-> error, more |-> FALSE ]

PlainBody(perf) == Body(perf, NoChannel, 0, 0, Ok)
OpenBody(mfs, idle) == Body("Open", NoChannel, mfs, idle, Ok)
BeginBody(remote_channel) == Body("Begin", remote_channel, 0, 0, Ok)
CloseBody(error) == Body("Close", NoChannel, 0, 0, error)
TransferBody(more) == [ PlainBody("Transfer") EXCEPT !.more = more ]

\* Frame::new(channel, body) and SessionFrame::new(channel, body)
Frame(channel, body) == [ channel |-> channel, body |-> body ]

\* Frame::empty()
FrameEmpty == Frame(0, PlainBody("Empty"))

\* the errors a Close carries in this model
CloseErrors == { Ok, "amqp:internal-error" }

\* the frame bodies the peer sends in this model
IncomingBodies ==
    { PlainBody(p) : p \in LinkPerformatives \cup { "End", "Empty" } }
        \cup { BeginBody(c) : c \in Channels \cup { NoChannel } }
        \cup { OpenBody(m, i) : m \in FrameSizes, i \in IdleTimeOuts }
        \cup { CloseBody(e) : e \in CloseErrors }

\* the frames a session submits in this model
SessionBodies ==
    { PlainBody(p) : p \in LinkPerformatives \cup { "End" } }
        \cup { BeginBody(NoChannel) }
        \cup { TransferBody(TRUE) }

\* the errors the stream of a transport bound with an idle timeout yields
\* instead of a frame
StreamErrors == { ErrIdleTimeout, ErrDecode, ErrIo }

\* ------------------------------------------------------------------------
\* State
\* ------------------------------------------------------------------------

VARIABLES
    pc,                 \* where the connection task is
    local_state,        \* Connection::local_state
    state_hist,         \* the values local_state has taken, in order
    init_state,         \* local_state when Transport::negotiate was called
    proto_header,       \* the header the local side sends
    io_written,         \* the header bytes written to the stream, in order
    inbound_buf,        \* the 8 bytes read in the header exchange (NoBuf: none)
    incoming_header,    \* the header Transport::negotiate returned
    result,             \* what the last operation / handler returned
    running,            \* the Running the last handler returned
    ev,                 \* the last event of the run
    wire,               \* the frames written to the transport, in order
    max_frame_size,     \* the transport's max frame length
    local_max_frame_size, \* connection.local_open().max_frame_size
    heartbeat,          \* the heartbeat period (0: HeartBeat::never())
    remote_err,         \* ConnectionEngine::remote_err
    remote_open,        \* the last remote Open processed (perf "Empty": none)
    local_sessions,     \* the session ids allocated (= their outgoing channels)
    session_by_incoming_channel,
    session_rx,         \* per session id, the frames its mailbox received
    outgoing_session_frames, \* the outgoing-session-frame mailbox
    submitted,          \* per outgoing channel, the frames submitted so far
    responses,          \* the replies sent on AllocateSession responders
    counts              \* how many events from outside the loop has taken

negVars == << local_state, state_hist, init_state, proto_header, io_written,
              inbound_buf, incoming_header >>
engineVars == << wire, max_frame_size, local_max_frame_size, heartbeat,
                 remote_err, remote_open >>
sessionVars == << local_sessions, session_by_incoming_channel, session_rx,
                  outgoing_session_frames, submitted, responses >>
connVars == << pc, result, running, ev, counts, negVars, engineVars, sessionVars >>

\* the transport's incoming stream (Stream for Transport<Io, amqp::Frame>)
VARIABLES
    idle_arg,           \* the Option<Duration> last given to bind / set_idle_timeout
    idle_timeout,       \* Transport::idle_timeout: << >> (None) or << duration >>
    idle_elapsed,       \* time since the IdleTimeout was created or reset
    framed,             \* the items the codec has ready, oldest first
    polled,             \* what each poll_next returned, in order
    clock               \* time passed since bind

streamVars == << idle_arg, idle_timeout, idle_elapsed, framed, polled, clock >>

\* Transport::connect_sasl
VARIABLES
    sasl_pc,            \* where connect_sasl is
    sasl_log,           \* what was written to and read from the stream, in order
    sasl_result         \* what connect_sasl returned

saslVars == << sasl_pc, sasl_log, sasl_result >>

\* a sender link (SenderLink)
VARIABLES
    link_state,         \* SenderLink::local_state
    output_handle,      \* SenderLink::output_handle: None or Some(handle)
    input_handle,       \* SenderLink::input_handle
    link_fields,        \* name, snd_settle_mode, rcv_settle_mode, source, target,
                        \* unsettled, max_message_size of the SenderLink
    link_attach,        \* the remote Attach last processed: None or Some(attach)
    link_writer,        \* the frames sent on the writer, in order
    link_last,          \* the last operation: its name, the state it met, its result
    link_ops            \* how many operations were called

linkVars == << link_state, output_handle, input_handle, link_fields,
               link_attach, link_writer, link_last, link_ops >>

\* the transaction coordinator (TxnCoordinator) with its link and its session
VARIABLES
    coord_pc,           \* TxnCoordinator::event_loop: "running" or "stopped"
    coord_session,      \* the session behind session_control: "alive" or "dropped"
    coord_txn_support,  \* whether that session allocates transaction ids
    coord_link,         \* the control link: "Attached", "Closed" (close_with_error)
                        \* or "Detached" (send_detach(true, None))
    coord_close_error,  \* the error the link was closed with
    coord_open_txns,    \* the transaction ids the session holds open
    coord_next_txn,     \* the next transaction id the session grants
    coord_requests,     \* the requests made to the session, in order
    coord_dispositions, \* the dispositions emitted, in order
    coord_last,         \* what recv() returned last
    coord_n             \* how many times recv() returned

coordVars == << coord_pc, coord_session, coord_txn_support, coord_link,
                coord_close_error, coord_open_txns, coord_next_txn,
                coord_requests, coord_dispositions, coord_last, coord_n >>

\* the type codec: a Value handed to to_vec, bytes handed to from_reader
VARIABLES
    codec_pc,           \* "value": a Value to encode; "bytes": bytes to decode;
                        \* "decoded": from_reader has returned
    codec_value,        \* the Value handed to to_vec
    codec_buf,          \* the bytes to_vec returned, or the bytes received
    codec_decoded       \* what from_reader returned

codecVars == << codec_pc, codec_value, codec_buf, codec_decoded >>

\* an attach that fails, and the conversion of its error
VARIABLES
    attach_pc,          \* "failing", "failed" or "converted"
    attach_role,        \* "sender" or "receiver"
    attach_cause,       \* the error the attach met
    attach_error,       \* the SenderAttachError / ReceiverAttachError reported
    attach_wire         \* definitions::Error::try_from(&error)

attachVars == << attach_pc, attach_role, attach_cause, attach_error, attach_wire >>

\* WebSocketStream::connect
VARIABLES
    ws_pc,              \* "start", "connecting", "verifying" or "returned"
    ws_request,         \* the headers of the request sent
    ws_response,        \* the handshake response
    ws_stream,          \* the WebSocket stream: "none", "open" or "closed"
    ws_result           \* what connect returned

wsVars == << ws_pc, ws_request, ws_response, ws_stream, ws_result >>

\* the library functions and conversions
libraryVars == << codecVars, attachVars, wsVars >>

\* the variables of the components other than the connection
componentVars == << streamVars, saslVars, linkVars, coordVars, libraryVars >>

\* what the actions of one component leave alone
exceptStream == << saslVars, linkVars, coordVars, libraryVars >>
exceptSasl == << streamVars, linkVars, coordVars, libraryVars >>
exceptLink == << streamVars, saslVars, coordVars, libraryVars >>
exceptCoord == << streamVars, saslVars, linkVars, libraryVars >>
exceptCodec == << streamVars, saslVars, linkVars, coordVars, attachVars, wsVars >>
exceptAttach == << streamVars, saslVars, linkVars, coordVars, codecVars, wsVars >>
exceptWs == << streamVars, saslVars, linkVars, coordVars, codecVars, attachVars >>

vars == << connVars, componentVars >>

\* Option<T>: None and Some(x)
None == << >>
Some(x) == << x >>

\* the state in which the transport's stream is left alone
StreamIdle ==
    /\ idle_arg = None
    /\ idle_timeout = None
    /\ idle_elapsed = 0
    /\ framed = << >>
    /\ polled = << >>
    /\ clock = 0


\* the event record: its source, the frame / control / error it carried and
\* the connection state it met
Event(src, frame, control, error, pre_state) ==
    [ src |-> src, frame |-> frame, control |-> control, error |-> error,
      pre_state |-> pre_state ]

NoControl == [ kind |-> "none", error |-> Ok, session_id |-> NoSession ]
NoEvent == Event("none", FrameEmpty, NoControl, Ok, "Start")

\* the state in which connect_sasl is left alone
SaslIdle ==
    /\ sasl_pc = "idle"
    /\ sasl_log = << >>
    /\ sasl_result = [ kind |-> NoResult, code |-> "", additional_data |-> None ]

\* LinkState
LinkStates ==
    { "Unattached", "AttachSent", "AttachReceived", "Attached",
      "DetachSent", "DetachReceived", "Detached" }

\* the record of a link operation
LinkOp(op, pre_state, pre_handle, res) ==
    [ op |-> op, pre_state |-> pre_state, pre_handle |-> pre_handle, result |-> res,
      closed |-> FALSE, error |-> << >> ]

NoLinkOp == LinkOp("none", "Unattached", None, NoResult)

\* the fields of a SenderLink besides its state and its handles; unsettled is
\* the map from delivery-tag to delivery state, max_message_size is 0 when
\* no size is set
LinkFields(source, target, unsettled, max_message_size) ==
    [ name |-> "link", snd_settle_mode |-> "Mixed", rcv_settle_mode |-> "First",
      source |-> source, target |-> target, unsettled |-> unsettled,
      max_message_size |-> max_message_size, initial_delivery_count |-> 0 ]

\* BTreeMap::new()
NoUnsettled == [ tag \in {} |-> "" ]

\* the state in which the link is left alone
LinkIdle ==
    /\ link_state = "Unattached"
    /\ output_handle = None
    /\ input_handle = None
    /\ link_fields = LinkFields(None, None, NoUnsettled, 0)
    /\ link_attach = None
    /\ link_writer = << >>
    /\ link_last = NoLinkOp
    /\ link_ops = MaxLinkOps

\* no transaction id
NoTxn == 0

\* what recv() returned: a delivery (its body, and the fields of a Declare
\* or Discharge) or an error
Received(kind, delivery_id, global_id, txn_id, fail, error) ==
    [ kind |-> kind, delivery_id |-> delivery_id, global_id |-> global_id,
      txn_id |-> txn_id, fail |-> fail, error |-> error ]

NoReceived == Received("none", 0, None, NoTxn, None, Ok)

\* the state in which the coordinator is left alone
CoordIdle ==
    /\ coord_pc = "idle"
    /\ coord_session = "alive"
    /\ coord_txn_support = TRUE
    /\ coord_link = "Attached"
    /\ coord_close_error = Ok
    /\ coord_open_txns = { }
    /\ coord_next_txn = 1
    /\ coord_requests = << >>
    /\ coord_dispositions = << >>
    /\ coord_last = NoReceived
    /\ coord_n = 0

\* the state in which the connection is left alone
ConnectionIdle ==
    /\ local_state = "Start"
    /\ proto_header = HeaderAmqp
    /\ pc = "idle"
    /\ state_hist = << "Start" >>
    /\ init_state = "Start"
    /\ io_written = << >>
    /\ inbound_buf = NoBuf
    /\ incoming_header = NoHeader
    /\ result = NoResult
    /\ running = "Continue"
    /\ ev = NoEvent
    /\ wire = << >>
    /\ max_frame_size = MinMaxFrameSize
    /\ local_max_frame_size = MinMaxFrameSize
    /\ heartbeat = 0
    /\ remote_err = Ok
    /\ remote_open = PlainBody("Empty")
    /\ local_sessions = { }
    /\ session_by_incoming_channel = [ c \in Channels |-> NoSession ]
    /\ session_rx = [ s \in Channels |-> << >> ]
    /\ outgoing_session_frames = << >>
    /\ submitted = [ c \in Channels |-> << >> ]
    /\ responses = << >>
    /\ counts = 0

\* the states in which the codec, the attach and the WebSocket connect are
\* left alone
CodecIdle ==
    /\ codec_pc = "idle"
    /\ codec_value = None
    /\ codec_buf = << >>
    /\ codec_decoded = None

AttachIdle ==
    /\ attach_pc = "idle"
    /\ attach_role = "sender"
    /\ attach_cause = None
    /\ attach_error = None
    /\ attach_wire = None

WsIdle ==
    /\ ws_pc = "idle"
    /\ ws_request = None
    /\ ws_response = None
    /\ ws_stream = "none"
    /\ ws_result = NoResult

ActorsIdle == ConnectionIdle /\ StreamIdle /\ SaslIdle /\ LinkIdle /\ CoordIdle
LibraryIdle == CodecIdle /\ AttachIdle /\ WsIdle

\* one component runs, the others are left alone
ConnectionAlone == StreamIdle /\ SaslIdle /\ LinkIdle /\ CoordIdle /\ LibraryIdle
StreamAlone == ConnectionIdle /\ SaslIdle /\ LinkIdle /\ CoordIdle /\ LibraryIdle
SaslAlone == ConnectionIdle /\ StreamIdle /\ LinkIdle /\ CoordIdle /\ LibraryIdle
LinkAlone == ConnectionIdle /\ StreamIdle /\ SaslIdle /\ CoordIdle /\ LibraryIdle
CoordAlone == ConnectionIdle /\ StreamIdle /\ SaslIdle /\ LinkIdle /\ LibraryIdle
CodecAlone == ActorsIdle /\ AttachIdle /\ WsIdle
AttachAlone == ActorsIdle /\ CodecIdle /\ WsIdle
WsAlone == ActorsIdle /\ CodecIdle /\ AttachIdle

\* the state after construction: nothing written, nothing read
InitCommon ==
    /\ pc = "negotiate_send"
    /\ state_hist = << local_state >>
    /\ init_state = local_state
    /\ io_written = << >>
    /\ inbound_buf = NoBuf
    /\ incoming_header = NoHeader
    /\ result = NoResult
    /\ running = "Continue"
    /\ ev = NoEvent
    /\ wire = << >>
    /\ max_frame_size = MinMaxFrameSize
    /\ local_max_frame_size \in FrameSizes
    /\ heartbeat = 0
    /\ remote_err = Ok
    /\ remote_open = PlainBody("Empty")
    /\ local_sessions = { }
    /\ session_by_incoming_channel = [ c \in Channels |-> NoSession ]
    /\ session_rx = [ s \in Channels |-> << >> ]
    /\ outgoing_session_frames = << >>
    /\ submitted = [ c \in Channels |-> << >> ]
    /\ responses = << >>
    /\ counts = 0
    /\ ConnectionAlone

\* a new connection: state Start, the AMQP header to send
Init ==
    /\ local_state = "Start"
    /\ proto_header = HeaderAmqp
    /\ InitCommon

\* Transport::negotiate as a function of its arguments: any local state,
\* any of the three headers
InitNegotiate ==
    /\ local_state \in ConnectionState
    /\ proto_header \in { HeaderAmqp, HeaderTls, HeaderSasl }
    /\ InitCommon

\* local_state := s, recorded
SetState(s) ==
    /\ local_state' = s
    /\ state_hist' = Append(state_hist, s)

KeepState == UNCHANGED << local_state, state_hist >>

\* ------------------------------------------------------------------------
\* Transport::negotiate: send_proto_header, then recv_proto_header
\* ------------------------------------------------------------------------

\* send_proto_header: the states in which the header is written
SendProtoHeaderLegal(state) == state \in { "Start", "HeaderReceived" }

\* send_proto_header: the state after the header was written
SendProtoHeaderNext(state) ==
    IF state = "Start" THEN "HeaderSent" ELSE "HeaderExchange"

\* recv_proto_header: the states in which a header is read
RecvProtoHeaderLegal(state) == state \in { "Start", "HeaderSent" }

\* recv_proto_header with the arms' states exchanged
RecvProtoHeaderNext_Swapped(state) ==
    IF state = "Start" THEN "HeaderExchange" ELSE "HeaderReceived"

\* recv_proto_header: the state after a matching header was read
RecvProtoHeaderNext(state) ==
    IF state = "Start" THEN "HeaderReceived" ELSE "HeaderExchange"

\* read_and_compare_proto_header, after read_exact filled the buffer: the
\* error it returns (Ok: none)
ReadAndCompareResult(buf, header) ==
    IF ~HeaderParses(buf) THEN ErrNotImplemented
    ELSE IF HeaderFromBytes(buf) # header THEN ErrNotImplemented
    ELSE Ok

\* read_and_compare_proto_header: whether it moves local_state to End
ReadAndCompareEnds(buf, header) ==
    HeaderParses(buf) /\ HeaderFromBytes(buf) # header

\* The first half of Transport::negotiate. write_all may fail, and then the
\* state is left alone; in any state but Start and HeaderReceived nothing is
\* written. An error ends negotiate.
SendProtoHeader ==
    /\ pc = "negotiate_send"
    /\ IF SendProtoHeaderLegal(local_state)
       THEN \E io_ok \in BOOLEAN :
              IF io_ok
              THEN /\ io_written' = Append(io_written, HeaderToBytes(proto_header))
                   /\ SetState(SendProtoHeaderNext(local_state))
                   /\ result' = Ok
                   /\ pc' = "negotiate_recv"
              ELSE /\ UNCHANGED io_written
                   /\ KeepState
                   /\ result' = ErrIo
                   /\ pc' = "failed"
       ELSE /\ UNCHANGED io_written
            /\ KeepState
            /\ result' = ErrIllegalState
            /\ pc' = "failed"
    /\ UNCHANGED << init_state, proto_header, inbound_buf, incoming_header,
                    running, ev, counts, engineVars, sessionVars >>
    /\ UNCHANGED componentVars

\* The second half of Transport::negotiate: recv_proto_header with
\* read_and_compare_proto_header. read_exact may fail (the stream ends).
RecvProtoHeader ==
    /\ pc = "negotiate_recv"
    /\ IF RecvProtoHeaderLegal(local_state)
       THEN \/ /\ result' = ErrIo
               /\ pc' = "failed"
               /\ KeepState
               /\ UNCHANGED << inbound_buf, incoming_header >>
            \/ \E buf \in InboundBufs :
                 /\ inbound_buf' = buf
                 /\ result' = ReadAndCompareResult(buf, proto_header)
                 /\ IF ReadAndCompareResult(buf, proto_header) = Ok
                    THEN /\ SetState(RecvProtoHeaderNext(local_state))
                         /\ incoming_header' = HeaderFromBytes(buf)
                         /\ pc' = "negotiated"
                    ELSE /\ IF ReadAndCompareEnds(buf, proto_header)
                            THEN SetState("End")
                            ELSE KeepState
                         /\ UNCHANGED incoming_header
                         /\ pc' = "failed"
       ELSE /\ result' = ErrIllegalState
            /\ pc' = "failed"
            /\ KeepState
            /\ UNCHANGED << inbound_buf, incoming_header >>
    /\ UNCHANGED << init_state, proto_header, io_written,
                    running, ev, counts, engineVars, sessionVars >>
    /\ UNCHANGED componentVars

NextNegotiate == SendProtoHeader \/ RecvProtoHeader

\* Transport::negotiate on its own, over every local state and header
SpecNegotiate == InitNegotiate /\ [][NextNegotiate]_vars

\* ------------------------------------------------------------------------
\* The Connection endpoint (modelled from the specification, section 4.4)
\* ------------------------------------------------------------------------

\* send_open: Open may be sent once the headers are exchanged
SendOpenLegal(state) == state \in { "HeaderExchange", "OpenReceived" }
SendOpenNext(state) ==
    IF state = "HeaderExchange" THEN "OpenSent" ELSE "Opened"

\* on_incoming_open
OnIncomingOpenLegal(state) == state \in { "HeaderExchange", "OpenSent" }
OnIncomingOpenNext(state) ==
    IF state = "HeaderExchange" THEN "OpenReceived" ELSE "Opened"

\* send_close
SendCloseLegal(state) == state \in { "Opened", "CloseReceived" }
SendCloseNext(state) ==
    IF state = "Opened" THEN "CloseSent" ELSE "End"

\* on_incoming_close
OnIncomingCloseLegal(state) == state \in { "Opened", "CloseSent" }
OnIncomingCloseNext(state) ==
    IF state = "Opened" THEN "CloseReceived" ELSE "End"

\* allocate_session: the error it answers with (Ok: a session is allocated)
\* an allocate_session that does not look at the connection state
AllocateSessionResult_AnyState(state, sessions) ==
    IF Channels \ sessions = { } THEN ErrChannelMax ELSE Ok

\* allocate_session: Ok or its error
AllocateSessionResult(state, sessions) ==
    IF state # "Opened" THEN ErrIllegalState
    ELSE IF Channels \ sessions = { } THEN ErrChannelMax
    ELSE Ok

\* allocate_session: the vacant entry it takes, also the outgoing channel
VacantEntry(sessions) ==
    CHOOSE s \in Channels \ sessions : \A t \in Channels \ sessions : s <= t

\* on_incoming_begin: the error it returns (Ok: the channel is bound to the
\* session the Begin answers and the Begin is forwarded to it)
OnIncomingBeginResult(state, sessions, by_incoming, channel, body) ==
    IF state # "Opened" THEN ErrIllegalState
    ELSE IF body.remote_channel = NoChannel THEN ErrNotImplemented
    ELSE IF body.remote_channel \notin sessions THEN ErrNotFound
    ELSE IF by_incoming[channel] # NoSession THEN ErrNotAllowed
    ELSE Ok

\* on_incoming_end: the error it returns (Ok: the End is forwarded to the
\* session of the channel and the channel is unbound)
OnIncomingEndResult(state, by_incoming, channel) ==
    IF state # "Opened" THEN ErrIllegalState
    ELSE IF by_incoming[channel] = NoSession THEN ErrNotFound
    ELSE Ok

\* on_outgoing_begin and on_outgoing_end: the frame to write
OnOutgoingBegin(channel, body) == Frame(channel, body)
OnOutgoingEnd(channel, body) == Frame(channel, body)

\* session_tx_by_incoming_channel: the session bound to the channel
SessionTxByIncomingChannel(by_incoming, channel) == by_incoming[channel]

\* deallocate_session: the bindings left
DeallocateBindings(by_incoming, session_id) ==
    [ c \in Channels |->
        IF by_incoming[c] = session_id THEN NoSession ELSE by_incoming[c] ]

\* tx.send(frame): the frame is appended to the session's mailbox
SendToSession(rx, session_id, frame) ==
    [ rx EXCEPT ![session_id] = Append(@, frame) ]

\* ------------------------------------------------------------------------
\* ConnectionEngine: helpers
\* ------------------------------------------------------------------------

\* min(local_open().max_frame_size, remote_max_frame_size)
NegotiatedMaxFrameSize(local, remote) ==
    IF local <= remote THEN local ELSE remote

\* a heartbeat that stays at never whatever the remote Open says
HeartBeatOf_Never(idle_time_out) == 0

\* the heartbeat set from the remote idle_time_out: HeartBeat::new(period)
\* for Some(millis), HeartBeat::never() for None
HeartBeatOf(idle_time_out) == idle_time_out

\* a session frame that loses the channel of the frame it came in
SessionFrameNew_Channel0(channel, body) == Frame(0, body)

\* SessionFrame::new(channel, body) as on_incoming builds it for the session
SessionFrameNew(channel, body) == Frame(channel, body)

\* forward_to_session without the check of the local state
ForwardToSessionResult_NoStateCheck(state, by_incoming, channel) ==
    IF SessionTxByIncomingChannel(by_incoming, channel) = NoSession
    THEN ErrNotFound
    ELSE Ok

\* forward_to_session: the error it returns (Ok: the frame was sent to the
\* session bound to the channel)
ForwardToSessionResult(state, by_incoming, channel) ==
    IF state # "Opened" THEN ErrIllegalState
    ELSE IF SessionTxByIncomingChannel(by_incoming, channel) = NoSession
         THEN ErrNotFound
    ELSE Ok

\* the tail of on_incoming and on_control: Stop once the state is End
RunningOf(state) == IF state = "End" THEN "Stop" ELSE "Continue"

\* on_outgoing_session_frames that also writes once a Close was received
OutgoingLegal_AlsoCloseReceived(state) == state \in { "Opened", "CloseReceived" }

\* on_outgoing_session_frames: the states in which the frame is written
OutgoingLegal(state) == state = "Opened"

\* on_outgoing_session_frames: the frame written for a session frame
OutgoingFrame(sframe) ==
    IF sframe.body.perf = "Begin" THEN OnOutgoingBegin(sframe.channel, sframe.body)
    ELSE IF sframe.body.perf = "End" THEN OnOutgoingEnd(sframe.channel, sframe.body)
    ELSE Frame(sframe.channel, sframe.body)

\* a mailbox that hands out its newest frame
MailboxRecv_Newest(q) == q[Len(q)]

\* outgoing_session_frames.recv(): the frame taken from the mailbox
MailboxRecv(q) == Head(q)
\* ... and the mailbox left
MailboxRest(q) == Tail(q)
\* Sender::send(frame): the mailbox after a session submitted a frame
MailboxSend(q, sframe) == Append(q, sframe)

\* on_heartbeat that skips the tick in Start only
HeartbeatSkips_OnlyStart(state) == state = "Start"

\* on_heartbeat: the states in which the tick is skipped
HeartbeatSkips(state) == state \in { "Start", "CloseSent" }
\* on_heartbeat: the state in which the tick stops the loop
HeartbeatStops(state) == state = "End"

\* event_loop: what the loop does with a handler's result. An error is
\* handed to panic!; Stop breaks the loop, which then returns Ok(())
EventLoopPc(res, run) ==
    IF res # Ok THEN "panicked"
    ELSE IF run = "Stop" THEN "stopped"
    ELSE "loop"

EventLoopStep(res, run) ==
    /\ result' = res
    /\ running' = IF res = Ok THEN run ELSE running
    /\ pc' = EventLoopPc(res, run)

\* ------------------------------------------------------------------------
\* ConnectionEngine::open
\* ------------------------------------------------------------------------

\* the local Open frame
LocalOpenFrame == Frame(0, OpenBody(local_max_frame_size, 0))

\* "Send an Open": connection.send_open(&mut transport)
OpenSendOpen ==
    /\ pc = "negotiated"
    /\ IF SendOpenLegal(local_state)
       THEN \E io_ok \in BOOLEAN :
              IF io_ok
              THEN /\ wire' = Append(wire, LocalOpenFrame)
                   /\ SetState(SendOpenNext(local_state))
                   /\ result' = Ok
                   /\ pc' = "open_wait"
              ELSE /\ UNCHANGED wire
                   /\ KeepState
                   /\ result' = ErrIo
                   /\ pc' = "failed"
       ELSE /\ UNCHANGED wire
            /\ KeepState
            /\ result' = ErrIllegalState
            /\ pc' = "failed"
    /\ UNCHANGED << init_state, proto_header, io_written, inbound_buf,
                    incoming_header, running, ev, counts, max_frame_size,
                    local_max_frame_size, heartbeat, remote_err,
                    remote_open, sessionVars >>
    /\ UNCHANGED componentVars

\* the part of open and of on_incoming that handles a remote Open:
\* on_incoming_open, then the transport's max frame size and the heartbeat
HandleRemoteOpen(body) ==
    /\ SetState(OnIncomingOpenNext(local_state))
    /\ max_frame_size' = NegotiatedMaxFrameSize(local_max_frame_size, body.max_frame_size)
    /\ heartbeat' = HeartBeatOf(body.idle_time_out)
    /\ remote_open' = body

\* "Wait for an Open": the first frame of the stream must be the remote Open
OpenWaitOpen ==
    /\ pc = "open_wait"
    /\ \/ \* the stream ended: todo!()
          /\ result' = "panic:todo"
          /\ pc' = "panicked"
          /\ KeepState
          /\ UNCHANGED << ev, max_frame_size, heartbeat, remote_open >>
       \/ \E e \in StreamErrors :
            /\ result' = e
            /\ pc' = "failed"
            /\ KeepState
            /\ ev' = Event("open", FrameEmpty, NoControl, e, local_state)
            /\ UNCHANGED << max_frame_size, heartbeat, remote_open >>
       \/ \E channel \in Channels, body \in IncomingBodies :
            /\ ev' = Event("open", Frame(channel, body), NoControl, Ok, local_state)
            /\ IF body.perf = "Open" /\ OnIncomingOpenLegal(local_state)
               THEN /\ HandleRemoteOpen(body)
                    /\ result' = Ok
                    /\ pc' = "loop"
               ELSE /\ KeepState
                    /\ UNCHANGED << max_frame_size, heartbeat, remote_open >>
                    /\ result' = ErrIllegalState
                    /\ pc' = "failed"
    /\ UNCHANGED << init_state, proto_header, io_written, inbound_buf,
                    incoming_header, running, counts, wire,
                    local_max_frame_size, remote_err,
                    sessionVars >>
    /\ UNCHANGED componentVars

\* ------------------------------------------------------------------------
\* ConnectionEngine::event_loop: the incoming stream
\* ------------------------------------------------------------------------

\* an incoming frame is taken from the transport
IncomingPre(frame) ==
    /\ pc = "loop"
    /\ counts < MaxEvents
    /\ counts' = counts + 1
    /\ ev' = Event("incoming", frame, NoControl, Ok, local_state)

\* what no on_incoming arm touches
IncomingFrame == << init_state, proto_header, io_written, inbound_buf,
                    incoming_header, wire, local_max_frame_size,
                    local_sessions, outgoing_session_frames, submitted,
                    responses >>

\* on_incoming, FrameBody::Open
OnIncomingOpen ==
    \E channel \in { 0 }, m \in FrameSizes, i \in IdleTimeOuts :
      LET body == OpenBody(m, i) IN
      /\ IncomingPre(Frame(channel, body))
      /\ IF OnIncomingOpenLegal(local_state)
         THEN /\ HandleRemoteOpen(body)
              /\ EventLoopStep(Ok, RunningOf(local_state'))
         ELSE /\ KeepState
              /\ UNCHANGED << max_frame_size, heartbeat, remote_open >>
              /\ EventLoopStep(ErrIllegalState, "Continue")
      /\ UNCHANGED << remote_err, session_by_incoming_channel, session_rx >>
      /\ UNCHANGED IncomingFrame
      /\ UNCHANGED componentVars

\* on_incoming, FrameBody::Begin: connection.on_incoming_begin
OnIncomingBegin ==
    \E channel \in Channels, rc \in Channels \cup { NoChannel } :
      LET body == BeginBody(rc)
          res == OnIncomingBeginResult(local_state, local_sessions,
                                       session_by_incoming_channel, channel, body)
      IN
      /\ IncomingPre(Frame(channel, body))
      /\ IF res = Ok
         THEN /\ session_by_incoming_channel' =
                    [ session_by_incoming_channel EXCEPT ![channel] = rc ]
              /\ session_rx' = SendToSession(session_rx, rc, Frame(channel, body))
         ELSE UNCHANGED << session_by_incoming_channel, session_rx >>
      /\ KeepState
      /\ EventLoopStep(res, RunningOf(local_state))
      /\ UNCHANGED << max_frame_size, heartbeat, remote_open, remote_err >>
      /\ UNCHANGED IncomingFrame
      /\ UNCHANGED componentVars

\* on_incoming, FrameBody::Attach, Flow, Transfer, Disposition and Detach:
\* forward_to_session(channel, SessionFrame::new(channel, body))
OnIncomingLinkFrame ==
    \E channel \in Channels, perf \in LinkPerformatives :
      LET body == PlainBody(perf)
          res == ForwardToSessionResult(local_state, session_by_incoming_channel,
                                        channel)
      IN
      /\ IncomingPre(Frame(channel, body))
      /\ IF res = Ok
         THEN session_rx' =
                SendToSession(session_rx,
                              SessionTxByIncomingChannel(session_by_incoming_channel,
                                                         channel),
                              SessionFrameNew(channel, body))
         ELSE UNCHANGED session_rx
      /\ KeepState
      /\ EventLoopStep(res, RunningOf(local_state))
      /\ UNCHANGED << max_frame_size, heartbeat, remote_open, remote_err,
                      session_by_incoming_channel >>
      /\ UNCHANGED IncomingFrame
      /\ UNCHANGED componentVars

\* on_incoming, FrameBody::End: connection.on_incoming_end
OnIncomingEnd ==
    \E channel \in Channels :
      LET body == PlainBody("End")
          res == OnIncomingEndResult(local_state, session_by_incoming_channel,
                                     channel)
      IN
      /\ IncomingPre(Frame(channel, body))
      /\ IF res = Ok
         THEN /\ session_rx' =
                   SendToSession(session_rx, session_by_incoming_channel[channel],
                                 Frame(channel, body))
              /\ session_by_incoming_channel' =
                   [ session_by_incoming_channel EXCEPT ![channel] = NoSession ]
         ELSE UNCHANGED << session_by_incoming_channel, session_rx >>
      /\ KeepState
      /\ EventLoopStep(res, RunningOf(local_state))
      /\ UNCHANGED << max_frame_size, heartbeat, remote_open, remote_err >>
      /\ UNCHANGED IncomingFrame
      /\ UNCHANGED componentVars

\* on_incoming, FrameBody::Close: connection.on_incoming_close
OnIncomingClose ==
    \E channel \in { 0 }, e \in CloseErrors :
      /\ IncomingPre(Frame(channel, CloseBody(e)))
      /\ IF OnIncomingCloseLegal(local_state)
         THEN /\ SetState(OnIncomingCloseNext(local_state))
              /\ remote_err' = e
              /\ EventLoopStep(Ok, RunningOf(local_state'))
         ELSE /\ KeepState
              /\ UNCHANGED remote_err
              /\ EventLoopStep(ErrIllegalState, "Continue")
      /\ UNCHANGED << max_frame_size, heartbeat, remote_open,
                      session_by_incoming_channel, session_rx >>
      /\ UNCHANGED IncomingFrame
      /\ UNCHANGED componentVars

\* on_incoming, FrameBody::Empty: "do nothing"
OnIncomingEmpty ==
    \E channel \in { 0 } :
      /\ IncomingPre(Frame(channel, PlainBody("Empty")))
      /\ KeepState
      /\ EventLoopStep(Ok, RunningOf(local_state))
      /\ UNCHANGED << max_frame_size, heartbeat, remote_open, remote_err,
                      session_by_incoming_channel, session_rx >>
      /\ UNCHANGED IncomingFrame
      /\ UNCHANGED componentVars

\* on_incoming with an error of the stream: "let frame = incoming?"
OnIncomingError ==
    \E e \in StreamErrors :
      /\ pc = "loop"
      /\ ev' = Event("incoming", FrameEmpty, NoControl, e, local_state)
      /\ KeepState
      /\ EventLoopStep(e, "Continue")
      /\ UNCHANGED << counts, max_frame_size, heartbeat, remote_open, remote_err,
                      session_by_incoming_channel, session_rx >>
      /\ UNCHANGED IncomingFrame
      /\ UNCHANGED componentVars

\* the incoming stream is closed: Ok(Running::Stop)
IncomingClosed ==
    /\ pc = "loop"
    /\ ev' = Event("incoming-closed", FrameEmpty, NoControl, Ok, local_state)
    /\ KeepState
    /\ EventLoopStep(Ok, "Stop")
    /\ UNCHANGED << counts, max_frame_size, heartbeat, remote_open, remote_err,
                    session_by_incoming_channel, session_rx >>
    /\ UNCHANGED IncomingFrame
    /\ UNCHANGED componentVars

\* ------------------------------------------------------------------------
\* ConnectionEngine::event_loop: control commands
\* ------------------------------------------------------------------------

ControlPre(control) ==
    /\ pc = "loop"
    /\ counts < MaxEvents
    /\ counts' = counts + 1
    /\ ev' = Event("control", FrameEmpty, control, Ok, local_state)

ControlFrame == << init_state, proto_header, io_written, inbound_buf,
                   incoming_header, max_frame_size, local_max_frame_size,
                   heartbeat, remote_err, remote_open, session_rx,
                   outgoing_session_frames, submitted >>

\* the reply on an AllocateSession responder
Response(error, channel, session_id) ==
    [ error |-> error, channel |-> channel, session_id |-> session_id ]

\* on_control, ConnectionControl::Open: connection.send_open
OnControlOpen ==
    /\ ControlPre([ kind |-> "Open", error |-> Ok, session_id |-> NoSession ])
    /\ IF SendOpenLegal(local_state)
       THEN \E io_ok \in BOOLEAN :
              IF io_ok
              THEN /\ wire' = Append(wire, LocalOpenFrame)
                   /\ SetState(SendOpenNext(local_state))
                   /\ EventLoopStep(Ok, RunningOf(local_state'))
              ELSE /\ UNCHANGED wire
                   /\ KeepState
                   /\ EventLoopStep(ErrIo, "Continue")
       ELSE /\ UNCHANGED wire
            /\ KeepState
            /\ EventLoopStep(ErrIllegalState, "Continue")
    /\ UNCHANGED << local_sessions, session_by_incoming_channel, responses >>
    /\ UNCHANGED ControlFrame
    /\ UNCHANGED componentVars

\* on_control, ConnectionControl::Close(error): connection.send_close
OnControlClose ==
    \E e \in CloseErrors :
      /\ ControlPre([ kind |-> "Close", error |-> e, session_id |-> NoSession ])
      /\ IF SendCloseLegal(local_state)
         THEN \E io_ok \in BOOLEAN :
                IF io_ok
                THEN /\ wire' = Append(wire, Frame(0, CloseBody(e)))
                     /\ SetState(SendCloseNext(local_state))
                     /\ EventLoopStep(Ok, RunningOf(local_state'))
                ELSE /\ UNCHANGED wire
                     /\ KeepState
                     /\ EventLoopStep(ErrIo, "Continue")
         ELSE /\ UNCHANGED wire
              /\ KeepState
              /\ EventLoopStep(ErrIllegalState, "Continue")
      /\ UNCHANGED << local_sessions, session_by_incoming_channel, responses >>
      /\ UNCHANGED ControlFrame
      /\ UNCHANGED componentVars

\* on_control, ConnectionControl::AllocateSession { tx, responder }: the
\* result of allocate_session is sent on the responder; sending fails when
\* the requesting handle is gone
OnControlAllocateSession ==
    \E responder_open \in BOOLEAN :
      LET res == AllocateSessionResult(local_state, local_sessions)
          id == VacantEntry(local_sessions)
      IN
      /\ ControlPre([ kind |-> "AllocateSession", error |-> Ok,
                      session_id |-> NoSession ])
      /\ local_sessions' = IF res = Ok THEN local_sessions \cup { id }
                           ELSE local_sessions
      /\ IF responder_open
         THEN /\ responses' =
                   Append(responses,
                          IF res = Ok THEN Response(Ok, id, id)
                          ELSE Response(res, NoChannel, NoSession))
              /\ EventLoopStep(Ok, RunningOf(local_state))
         ELSE /\ UNCHANGED responses
              /\ EventLoopStep(ErrIo, "Continue")
      /\ KeepState
      /\ UNCHANGED << wire, session_by_incoming_channel >>
      /\ UNCHANGED ControlFrame
      /\ UNCHANGED componentVars

\* on_control, ConnectionControl::DeallocateSession(session_id)
OnControlDeallocateSession ==
    \E session_id \in Channels :
      /\ ControlPre([ kind |-> "DeallocateSession", error |-> Ok,
                      session_id |-> session_id ])
      /\ local_sessions' = local_sessions \ { session_id }
      /\ session_by_incoming_channel' =
           DeallocateBindings(session_by_incoming_channel, session_id)
      /\ KeepState
      /\ EventLoopStep(Ok, RunningOf(local_state))
      /\ UNCHANGED << wire, responses >>
      /\ UNCHANGED ControlFrame
      /\ UNCHANGED componentVars

\* every control sender is dropped: Ok(Running::Stop)
ControlClosed ==
    /\ pc = "loop"
    /\ ev' = Event("control-closed", FrameEmpty, NoControl, Ok, local_state)
    /\ KeepState
    /\ EventLoopStep(Ok, "Stop")
    /\ UNCHANGED << counts, wire, local_sessions, session_by_incoming_channel,
                    responses >>
    /\ UNCHANGED ControlFrame
    /\ UNCHANGED componentVars

\* ------------------------------------------------------------------------
\* ConnectionEngine::event_loop: outgoing session frames
\* ------------------------------------------------------------------------

OutgoingFrameVars == << init_state, proto_header, io_written, inbound_buf,
                        incoming_header, counts, max_frame_size,
                        local_max_frame_size, heartbeat, remote_err,
                        remote_open, local_sessions, session_by_incoming_channel,
                        session_rx, submitted, responses >>

\* a session with an allocated outgoing channel submits a frame
SessionSubmit ==
    \E channel \in local_sessions, body \in SessionBodies :
      /\ pc = "loop"
      /\ counts < MaxEvents
      /\ counts' = counts + 1
      /\ outgoing_session_frames' =
           MailboxSend(outgoing_session_frames, Frame(channel, body))
      /\ submitted' = [ submitted EXCEPT ![channel] = Append(@, Frame(channel, body)) ]
      /\ ev' = Event("submit", Frame(channel, body), NoControl, Ok, local_state)
      /\ UNCHANGED << pc, result, running, negVars, engineVars,
                      local_sessions, session_by_incoming_channel, session_rx,
                      responses >>
      /\ UNCHANGED componentVars

\* on_outgoing_session_frames: the frame at the head of the mailbox
OnOutgoingSessionFrames ==
    /\ pc = "loop"
    /\ outgoing_session_frames # << >>
    /\ LET sframe == MailboxRecv(outgoing_session_frames) IN
       /\ ev' = Event("outgoing", sframe, NoControl, Ok, local_state)
       /\ outgoing_session_frames' = MailboxRest(outgoing_session_frames)
       /\ IF OutgoingLegal(local_state)
          THEN \E io_ok \in BOOLEAN :
                 IF io_ok
                 THEN /\ wire' = Append(wire, OutgoingFrame(sframe))
                      /\ EventLoopStep(Ok, "Continue")
                 ELSE /\ UNCHANGED wire
                      /\ EventLoopStep(ErrIo, "Continue")
          ELSE /\ UNCHANGED wire
               /\ EventLoopStep(ErrIllegalState, "Continue")
    /\ KeepState
    /\ UNCHANGED OutgoingFrameVars
    /\ UNCHANGED componentVars

\* every session sender is dropped and the mailbox is drained:
\* Ok(Running::Stop)
OutgoingClosed ==
    /\ pc = "loop"
    /\ outgoing_session_frames = << >>
    /\ ev' = Event("outgoing-closed", FrameEmpty, NoControl, Ok, local_state)
    /\ KeepState
    /\ EventLoopStep(Ok, "Stop")
    /\ UNCHANGED << wire, outgoing_session_frames >>
    /\ UNCHANGED OutgoingFrameVars
    /\ UNCHANGED componentVars

\* ------------------------------------------------------------------------
\* ConnectionEngine::event_loop: the heartbeat
\* ------------------------------------------------------------------------

\* on_heartbeat; HeartBeat::never() never ticks
OnHeartbeat ==
    /\ pc = "loop"
    /\ heartbeat # 0
    /\ counts < MaxEvents
    /\ counts' = counts + 1
    /\ ev' = Event("heartbeat", FrameEmpty, NoControl, Ok, local_state)
    /\ IF HeartbeatSkips(local_state)
       THEN /\ UNCHANGED wire
            /\ EventLoopStep(Ok, "Continue")
       ELSE IF HeartbeatStops(local_state)
       THEN /\ UNCHANGED wire
            /\ EventLoopStep(Ok, "Stop")
       ELSE \E io_ok \in BOOLEAN :
              IF io_ok
              THEN /\ wire' = Append(wire, FrameEmpty)
                   /\ EventLoopStep(Ok, "Continue")
              ELSE /\ UNCHANGED wire
                   /\ EventLoopStep(ErrIo, "Continue")
    /\ KeepState
    /\ UNCHANGED << init_state, proto_header, io_written, inbound_buf,
                    incoming_header, max_frame_size, local_max_frame_size,
                    heartbeat, remote_err, remote_open,
                    sessionVars >>
    /\ UNCHANGED componentVars

\* ------------------------------------------------------------------------
\* The connection task
\* ------------------------------------------------------------------------

Next ==
    \/ SendProtoHeader
    \/ RecvProtoHeader
    \/ OpenSendOpen
    \/ OpenWaitOpen
    \/ OnIncomingOpen
    \/ OnIncomingBegin
    \/ OnIncomingLinkFrame
    \/ OnIncomingEnd
    \/ OnIncomingClose
    \/ OnIncomingEmpty
    \/ OnIncomingError
    \/ IncomingClosed
    \/ OnControlOpen
    \/ OnControlClose
    \/ OnControlAllocateSession
    \/ OnControlDeallocateSession
    \/ ControlClosed
    \/ SessionSubmit
    \/ OnOutgoingSessionFrames
    \/ OutgoingClosed
    \/ OnHeartbeat

Spec == Init /\ [][Next]_vars

\* ------------------------------------------------------------------------
\* Transport: the incoming stream and its idle timeout
\* ------------------------------------------------------------------------

\* the durations given to bind and set_idle_timeout
Durations == { 0, 2 }

\* what the codec can have ready: a frame, an empty frame, a frame longer
\* than the max frame length, a read error, bytes that do not decode, the end
\* of the stream
StreamItems == { "Frame", "Empty", "TooLong", "ReadError", "Undecodable", "Eof" }

\* bind: Some(duration) makes a timer unless the duration is zero
IdleTimeoutOfBind(arg) ==
    IF arg = None THEN None
    ELSE IF arg[1] = 0 THEN None ELSE Some(arg[1])

\* a set_idle_timeout that makes a timer of any duration
IdleTimeoutOfSet_KeepsZero(duration) == Some(duration)

\* set_idle_timeout: a timer unless the duration is zero
IdleTimeoutOfSet(duration) ==
    IF duration = 0 THEN None ELSE Some(duration)

\* IdleTimeout polled: ready once its duration has passed since it was
\* created or reset
DelayReady(elapsed, duration) == elapsed >= duration

\* the type of the errors Framed<Io, LengthDelimitedCodec> yields: the
\* codec reports a frame longer than the max frame length as an io::Error
\* that wraps a LengthDelimitedCodecError
CodecErrorType == "std::io::Error"

\* (&err as &dyn Any).is::<T>(): the type of err itself is compared
AnyIs(type, asked) == type = asked

\* what poll_next makes of an item the codec yields
PollItem(item) ==
    CASE item \in { "TooLong", "ReadError" } ->
            IF AnyIs(CodecErrorType, "LengthDelimitedCodecError")
            THEN ErrFrameSize
            ELSE ErrIo
      [] item = "Undecodable" -> ErrDecode
      [] OTHER -> item

\* Transport::bind with any idle_timeout argument
InitStream ==
    /\ idle_arg \in { None } \cup { Some(d) : d \in Durations }
    /\ idle_timeout = IdleTimeoutOfBind(idle_arg)
    /\ idle_elapsed = 0
    /\ framed = << >>
    /\ polled = << >>
    /\ clock = 0
    /\ StreamAlone

\* Transport::set_idle_timeout
SetIdleTimeout ==
    \E duration \in Durations :
      /\ idle_arg' = Some(duration)
      /\ idle_timeout' = IdleTimeoutOfSet(duration)
      /\ idle_elapsed' = 0
      /\ UNCHANGED << framed, polled, clock, connVars, exceptStream >>

\* time passes; a timer, if there is one, runs
TimePasses ==
    /\ clock < MaxTime
    /\ clock' = clock + 1
    /\ idle_elapsed' = IF idle_timeout = None THEN idle_elapsed ELSE idle_elapsed + 1
    /\ UNCHANGED << idle_arg, idle_timeout, framed, polled, connVars, exceptStream >>

\* the codec gets an item ready
FrameArrives ==
    \E item \in StreamItems :
      /\ Len(framed) < MaxFramed
      /\ framed' = Append(framed, item)
      /\ UNCHANGED << idle_arg, idle_timeout, idle_elapsed, polled, clock, connVars, exceptStream >>

\* poll_next: the codec first; when it is pending, the idle timeout
PollNext ==
    /\ Len(polled) < MaxPolls
    /\ IF framed # << >>
       THEN /\ idle_elapsed' = 0
            /\ polled' = Append(polled, PollItem(Head(framed)))
            /\ framed' = Tail(framed)
       ELSE /\ polled' = Append(polled,
                IF idle_timeout # None /\ DelayReady(idle_elapsed, idle_timeout[1])
                THEN ErrIdleTimeout ELSE "Pending")
            /\ UNCHANGED << idle_elapsed, framed >>
    /\ UNCHANGED << idle_arg, idle_timeout, clock, connVars, exceptStream >>

NextStream ==
    \/ SetIdleTimeout
    \/ TimePasses
    \/ FrameArrives
    \/ PollNext

SpecStream == InitStream /\ [][NextStream]_vars

\* ------------------------------------------------------------------------
\* Transport::connect_sasl
\* ------------------------------------------------------------------------

\* SaslCode
SaslCodes == { "Ok", "Auth", "Sys" }

\* Outcome.additional_data: Option<Binary>
AdditionalData == { None, Some("data") }

\* sasl::Frame
SaslFrame(kind, code, additional_data) ==
    [ kind |-> kind, code |-> code, additional_data |-> additional_data ]

NoSaslFrame == SaslFrame("none", "", None)

\* the frames the peer can send: Mechanisms, Challenge, any Outcome, and
\* the client's own Init sent back
ServerFrames ==
    { SaslFrame("Mechanisms", "", None), SaslFrame("Challenge", "", None),
      SaslFrame("Init", "", None) }
    \cup { SaslFrame("Outcome", c, d) : c \in SaslCodes, d \in AdditionalData }

\* Result<Io, Error>
SaslReturn(kind, code, additional_data) ==
    [ kind |-> kind, code |-> code, additional_data |-> additional_data ]

SaslFailure(kind) == SaslReturn(kind, "", None)

\* an entry of the stream's log: a header or a frame, written or read, or
\* the end of the stream
SaslLogEntry(dir, kind, bytes, frame) ==
    [ dir |-> dir, kind |-> kind, bytes |-> bytes, frame |-> frame ]

\* SaslProfile::on_frame: the Negotiation steps it can answer a frame with.
\* Mechanisms is answered with Init unless no mechanism fits, a Challenge
\* is not answered by a frame, an Outcome is handed on, any other frame is
\* an error
OnFrame(frame) ==
    CASE frame.kind = "Mechanisms" -> { "Init", ErrNotImplemented }
      [] frame.kind = "Challenge" -> { "Continue", ErrNotImplemented }
      [] frame.kind = "Outcome" -> { "Outcome" }
      [] OTHER -> { ErrNotImplemented }

\* a header check that lets any header pass that parses
SaslHeaderResult_AnyHeader(buf) ==
    IF ~ HeaderParses(buf) THEN "io:invalid-protocol-header" ELSE Ok

\* the check of the header read back: it must parse and equal the SASL header
SaslHeaderResult(buf) ==
    IF ~ HeaderParses(buf) THEN "io:invalid-protocol-header"
    ELSE IF HeaderFromBytes(buf) # HeaderSasl THEN "io:protocol-header-mismatch"
    ELSE Ok

\* an outcome handling for which every code is a success
OutcomeResult_AnyCodeOk(outcome) == SaslFailure(Ok)

\* Negotiation::Outcome: SaslCode::Ok returns the stream, any other code is
\* Error::SaslError { code, additional_data }
OutcomeResult(outcome) ==
    IF outcome.code = "Ok" THEN SaslFailure(Ok)
    ELSE SaslReturn("SaslError", outcome.code, outcome.additional_data)

\* the frames read so far
SaslFramesRead(log) ==
    Cardinality({ i \in 1 .. Len(log) : log[i].dir = "read" /\ log[i].kind = "frame" })

\* connect_sasl is called on a fresh stream
InitSasl ==
    /\ sasl_pc = "write_header"
    /\ sasl_log = << >>
    /\ sasl_result = SaslFailure(NoResult)
    /\ SaslAlone

\* connect_sasl returns
SaslReturns(ret) ==
    /\ sasl_result' = ret
    /\ sasl_pc' = IF ret.kind = Ok THEN "done" ELSE "failed"

\* stream.write_all(&buf)
SaslWriteHeader ==
    /\ sasl_pc = "write_header"
    /\ \E io_ok \in BOOLEAN :
         IF io_ok
         THEN /\ sasl_log' = Append(sasl_log,
                    SaslLogEntry("write", "header", HeaderToBytes(HeaderSasl), NoSaslFrame))
              /\ sasl_pc' = "read_header"
              /\ UNCHANGED sasl_result
         ELSE /\ SaslReturns(SaslFailure(ErrIo))
              /\ UNCHANGED sasl_log
    /\ UNCHANGED << connVars, exceptSasl >>

\* stream.read_exact(&mut buf), then the check of the header
SaslReadHeader ==
    /\ sasl_pc = "read_header"
    /\ \/ /\ SaslReturns(SaslFailure(ErrIo))
          /\ UNCHANGED sasl_log
       \/ \E buf \in InboundBufs :
            /\ sasl_log' = Append(sasl_log, SaslLogEntry("read", "header", buf, NoSaslFrame))
            /\ IF SaslHeaderResult(buf) = Ok
               THEN /\ sasl_pc' = "frames"
                    /\ UNCHANGED sasl_result
               ELSE SaslReturns(SaslFailure(SaslHeaderResult(buf)))
    /\ UNCHANGED << connVars, exceptSasl >>

\* transport.next() is None: the stream ended
SaslStreamEnds ==
    /\ sasl_pc = "frames"
    /\ sasl_log' = Append(sasl_log, SaslLogEntry("read", "eof", NoBuf, NoSaslFrame))
    /\ SaslReturns(SaslFailure("io:unexpected-eof"))
    /\ UNCHANGED << connVars, exceptSasl >>

\* transport.next() is an error; the transport is bound without idle timeout
SaslStreamError ==
    /\ sasl_pc = "frames"
    /\ \E e \in StreamErrors \ { ErrIdleTimeout } : SaslReturns(SaslFailure(e))
    /\ UNCHANGED sasl_log
    /\ UNCHANGED << connVars, exceptSasl >>

\* transport.next() is a frame: profile.on_frame and what follows from it
SaslOnFrame ==
    /\ sasl_pc = "frames"
    /\ SaslFramesRead(sasl_log) < MaxSaslFrames
    /\ \E frame \in ServerFrames :
       \E step \in OnFrame(frame) :
         LET read == Append(sasl_log, SaslLogEntry("read", "frame", NoBuf, frame)) IN
         CASE step = "Continue" ->
                /\ sasl_log' = read
                /\ UNCHANGED << sasl_pc, sasl_result >>
           [] step = "Init" ->
                \E io_ok \in BOOLEAN :
                  IF io_ok
                  THEN /\ sasl_log' = Append(read,
                             SaslLogEntry("write", "frame", NoBuf, SaslFrame("Init", "", None)))
                       /\ UNCHANGED << sasl_pc, sasl_result >>
                  ELSE /\ sasl_log' = read
                       /\ SaslReturns(SaslFailure(ErrIo))
           [] step = "Outcome" ->
                /\ sasl_log' = read
                /\ SaslReturns(OutcomeResult(frame))
           [] OTHER ->
                /\ sasl_log' = read
                /\ SaslReturns(SaslFailure(step))
    /\ UNCHANGED << connVars, exceptSasl >>

NextSasl ==
    \/ SaslWriteHeader
    \/ SaslReadHeader
    \/ SaslStreamEnds
    \/ SaslStreamError
    \/ SaslOnFrame

SpecSasl == InitSasl /\ [][NextSasl]_vars

\* ------------------------------------------------------------------------
\* SenderLink: send_attach, send_detach
\* ------------------------------------------------------------------------

ErrInvalidField == "amqp:invalid-field"

\* mpsc::error::SendError: the writer's channel is closed
ErrSend == "send-error"

\* a send_attach that also attaches a Detached link
SendAttachLegal_AlsoDetached(state) ==
    state \in { "Unattached", "AttachReceived", "Detached" }

\* the states in which send_attach sends
SendAttachLegal(state) == state \in { "Unattached", "AttachReceived" }

\* the state send_attach leaves behind once the frame is sent
SendAttachNext(state) ==
    IF state = "AttachReceived" THEN "Attached" ELSE "AttachSent"

\* the states in which send_detach sends
SendDetachLegal(state) == state \in { "Attached", "DetachReceived" }

\* the state send_detach sets before it sends the frame
SendDetachNext(state) ==
    IF state = "DetachReceived" THEN "Detached" ELSE "DetachSent"

\* LinkFrame::Attach / LinkFrame::Detach: the performative, its handle and
\* the fields of the performative
LinkFrame(perf, handle) ==
    [ perf |-> perf, handle |-> handle, role |-> "", source |-> None, target |-> None,
      unsettled |-> None, initial_delivery_count |-> None, max_message_size |-> None,
      closed |-> FALSE, error |-> None ]

\* a send_attach that writes the limit into the Attach as it is, zero included
AttachMaxMessageSize_ZeroIsSome(max_message_size) == Some(max_message_size)

\* send_attach: the max-message-size of the Attach
AttachMaxMessageSize(max_message_size) ==
    IF max_message_size = 0 THEN None ELSE Some(max_message_size)

\* send_attach: the unsettled field of the Attach
AttachUnsettled(unsettled) ==
    IF DOMAIN unsettled = {} THEN None ELSE Some(unsettled)

\* send_attach: the Attach built from the link
AttachOf(handle, fields) ==
    [ LinkFrame("Attach", handle) EXCEPT
        !.role = "sender",
        !.source = fields.source,
        !.target = fields.target,
        !.unsettled = AttachUnsettled(fields.unsettled),
        !.initial_delivery_count = Some(fields.initial_delivery_count),
        !.max_message_size = AttachMaxMessageSize(fields.max_message_size) ]

\* a send_detach that always closes
DetachOf_AlwaysClosed(handle, closed, error) ==
    [ LinkFrame("Detach", handle) EXCEPT !.closed = TRUE, !.error = error ]

\* send_detach: Detach { handle, closed, error }
DetachOf(handle, closed, error) ==
    [ LinkFrame("Detach", handle) EXCEPT !.closed = closed, !.error = error ]

\* the errors a caller detaches with
DetachErrorsSent == { None, Some("amqp:internal-error") }

\* todo!(): the call panics with "not yet implemented"
Panicked == "panicked"

\* max_message_size of a link: 0 is "not set"
MessageSizes == { 0, 100, 200 }

\* Attach.max_message_size of the remote Attach
RemoteMessageSizes == { None } \cup { Some(m) : m \in MessageSizes }

\* the remote Attach: the fields on_incoming_attach reads, and its source
IncomingAttach(handle, target, max_message_size) ==
    [ handle |-> handle, source |-> Some("remote-source"), target |-> target,
      max_message_size |-> max_message_size ]

IncomingAttaches ==
    { IncomingAttach(h, t, m) :
        h \in { 0, 1 }, t \in { None, Some("remote-target") },
        m \in RemoteMessageSizes }

\* an on_incoming_attach that keeps the local target
OnIncomingAttachTarget_KeepsLocal(local, remote) == local

\* on_incoming_attach: self.target = attach.target
OnIncomingAttachTarget(local, remote) == remote

\* on_incoming_attach: the max_message_size it leaves in the link
OnIncomingAttachMaxMessageSize(local, remote) ==
    LET remote_max_msg_size == IF remote = None THEN 0 ELSE remote[1]
    IN  IF remote_max_msg_size < local THEN remote_max_msg_size ELSE local

\* a link with any local state, with or without an output handle, with or
\* without a source, a target and a message size limit; no code fills the
\* unsettled map
InitLink ==
    /\ link_state \in LinkStates
    /\ output_handle \in { None, Some(0) }
    /\ input_handle = None
    /\ link_fields \in
         { LinkFields(src, tgt, NoUnsettled, m) :
             src \in { None, Some("local-source") },
             tgt \in { None, Some("local-target") },
             m \in MessageSizes }
    /\ link_attach = None
    /\ link_writer = << >>
    /\ link_last = NoLinkOp
    /\ link_ops = 0
    /\ LinkAlone

\* an operation is called
LinkCall(op, res) ==
    /\ link_ops < MaxLinkOps
    /\ link_last.result # Panicked
    /\ link_ops' = link_ops + 1
    /\ link_last' = LinkOp(op, link_state, output_handle, res)

\* send_detach is called with closed and error
LinkCallDetach(res, closed, error) ==
    /\ link_ops < MaxLinkOps
    /\ link_last.result # Panicked
    /\ link_ops' = link_ops + 1
    /\ link_last' = [ LinkOp("send_detach", link_state, output_handle, res)
                        EXCEPT !.closed = closed, !.error = error ]

\* on_incoming_attach: the remote handle is kept, the target is taken from
\* the remote Attach, the message size is lowered; the local state is not
\* touched
LinkOnIncomingAttach ==
    \E attach \in IncomingAttaches :
      /\ LinkCall("on_incoming_attach", Ok)
      /\ input_handle' = Some(attach.handle)
      /\ link_fields' =
           [ link_fields EXCEPT
               !.target = OnIncomingAttachTarget(@, attach.target),
               !.max_message_size =
                   OnIncomingAttachMaxMessageSize(@, attach.max_message_size) ]
      /\ link_attach' = Some(attach)
      /\ UNCHANGED << link_state, output_handle, link_writer >>
      /\ UNCHANGED << connVars, exceptLink >>

\* on_incoming_disposition: todo!()
LinkOnIncomingDisposition ==
    /\ LinkCall("on_incoming_disposition", Panicked)
    /\ UNCHANGED << link_state, output_handle, input_handle, link_fields,
                    link_attach, link_writer >>
    /\ UNCHANGED << connVars, exceptLink >>

\* send_transfer: todo!()
LinkSendTransfer ==
    /\ LinkCall("send_transfer", Panicked)
    /\ UNCHANGED << link_state, output_handle, input_handle, link_fields,
                    link_attach, link_writer >>
    /\ UNCHANGED << connVars, exceptLink >>

\* send_attach
LinkSendAttach ==
    /\ \E sent \in BOOLEAN :
         IF output_handle = None
         THEN /\ LinkCall("send_attach", ErrInvalidField)
              /\ UNCHANGED << link_state, link_writer >>
         ELSE IF ~ SendAttachLegal(link_state)
         THEN /\ LinkCall("send_attach", ErrIllegalState)
              /\ UNCHANGED << link_state, link_writer >>
         ELSE IF sent
         THEN /\ LinkCall("send_attach", Ok)
              /\ link_writer' = Append(link_writer, AttachOf(output_handle[1], link_fields))
              /\ link_state' = SendAttachNext(link_state)
         ELSE /\ LinkCall("send_attach", ErrSend)
              /\ UNCHANGED << link_state, link_writer >>
    /\ UNCHANGED << output_handle, input_handle, link_fields, link_attach >>
    /\ UNCHANGED << connVars, exceptLink >>

\* send_detach: the output handle is taken whatever follows
LinkSendDetach ==
    /\ \E sent, closed \in BOOLEAN, error \in DetachErrorsSent :
         IF output_handle = None
         THEN /\ LinkCallDetach(ErrIllegalState, closed, error)
              /\ UNCHANGED << link_state, link_writer >>
         ELSE IF ~ SendDetachLegal(link_state)
         THEN /\ LinkCallDetach(ErrIllegalState, closed, error)
              /\ UNCHANGED << link_state, link_writer >>
         ELSE /\ link_state' = SendDetachNext(link_state)
              /\ IF sent
                 THEN /\ LinkCallDetach(Ok, closed, error)
                      /\ link_writer' =
                           Append(link_writer, DetachOf(output_handle[1], closed, error))
                 ELSE /\ LinkCallDetach(ErrSend, closed, error)
                      /\ UNCHANGED link_writer
    /\ output_handle' = None
    /\ UNCHANGED << input_handle, link_fields, link_attach >>
    /\ UNCHANGED << connVars, exceptLink >>

NextLink ==
    \/ LinkOnIncomingAttach
    \/ LinkOnIncomingDisposition
    \/ LinkSendTransfer
    \/ LinkSendAttach
    \/ LinkSendDetach

SpecLink == InitLink /\ [][NextLink]_vars

\* the unsettled map of a link that is resumed: one delivery not settled
ResumedUnsettled == [ tag \in { "tag-1" } |-> "Received" ]

\* a link as InitLink has it, or one that is resumed with unsettled
\* deliveries
InitLinkResumed ==
    /\ link_state \in LinkStates
    /\ output_handle \in { None, Some(0) }
    /\ input_handle = None
    /\ link_fields \in
         { LinkFields(src, tgt, u, m) :
             src \in { None, Some("local-source") },
             tgt \in { None, Some("local-target") },
             u \in { NoUnsettled, ResumedUnsettled },
             m \in MessageSizes }
    /\ link_attach = None
    /\ link_writer = << >>
    /\ link_last = NoLinkOp
    /\ link_ops = 0
    /\ LinkAlone

SpecLinkResumed == InitLinkResumed /\ [][NextLink]_vars

\* ------------------------------------------------------------------------
\* TxnCoordinator
\* ------------------------------------------------------------------------

\* CoordinatorError
ErrGlobalIdNotImplemented == "GlobalIdNotImplemented"
ErrInvalidSessionState == "InvalidSessionState"
ErrAllocTxnIdNotImplemented == "AllocTxnIdNotImplemented"

\* TransactionError::UnknownId
ErrTxnUnknownId == "amqp:transaction:unknown-id"

\* IllegalLinkStateError
ErrIllegalSessionState == "IllegalSessionState"

\* the transaction ids a Discharge names
TxnIds == 1 .. 2

\* Declare.global_id
GlobalIds == { None, Some("gid") }

\* Discharge.fail
Fails == { None, Some(TRUE), Some(FALSE) }

\* the errors recv() returns
RecvErrors ==
    { "IllegalState", "IllegalSessionState", "ExpectImmediateDetach",
      "RemoteDetached", "RemoteDetachedWithError", "RemoteClosed",
      "RemoteClosedWithError", "TransferLimitExceeded",
      "DeliveryIdIsNone", "DeliveryTagIsNone", "MessageDecodeError",
      "IllegalRcvSettleModeInTransfer", "InconsistentFieldInMultiFrameDelivery" }

\* LinkError::TransferLimitExceeded
ErrTransferLimitExceeded == "amqp:link:transfer-limit-exceeded"

\* what the coordinator does with its link: the call and the error passed
Reaction(call, error) == [ call |-> call, error |-> error ]

\* an on_recv_error that closes with illegal-state after a remote detach
OnRecvErrorReaction_RemoteIsIllegalState(error) ==
    CASE error = "IllegalSessionState" -> Reaction("nothing", Ok)
      [] error = "ExpectImmediateDetach" -> Reaction("close_with_error", Ok)
      [] error = "TransferLimitExceeded" ->
            Reaction("close_with_error", ErrTransferLimitExceeded)
      [] error \in { "IllegalState", "RemoteDetached", "RemoteDetachedWithError",
                     "RemoteClosed", "RemoteClosedWithError" } ->
            Reaction("close_with_error", ErrIllegalState)
      [] OTHER -> Reaction("close_with_error", ErrNotAllowed)

\* on_recv_error: close_with_error(error), send_detach(true, None) or
\* nothing, by the error recv() returned
OnRecvErrorReaction(error) ==
    CASE error = "IllegalState" -> Reaction("close_with_error", ErrIllegalState)
      [] error = "IllegalSessionState" -> Reaction("nothing", Ok)
      [] error = "ExpectImmediateDetach" -> Reaction("close_with_error", Ok)
      [] error \in { "RemoteDetached", "RemoteDetachedWithError",
                     "RemoteClosed", "RemoteClosedWithError" } ->
            Reaction("send_detach", Ok)
      [] error = "TransferLimitExceeded" ->
            Reaction("close_with_error", ErrTransferLimitExceeded)
      [] error \in { "DeliveryIdIsNone", "DeliveryTagIsNone", "MessageDecodeError",
                     "IllegalRcvSettleModeInTransfer",
                     "InconsistentFieldInMultiFrameDelivery" } ->
            Reaction("close_with_error", ErrNotAllowed)

\* a request to the session and its result
Request(op, txn_id, res) == [ op |-> op, txn_id |-> txn_id, result |-> res ]

\* a disposition: the delivery and its state
Disposition(delivery_id, state, txn_id, error) ==
    [ delivery_id |-> delivery_id, state |-> state, txn_id |-> txn_id, error |-> error ]

\* session::allocate_transaction_id
AllocateResult(session, support) ==
    IF session = "dropped" THEN ErrInvalidSessionState
    ELSE IF ~ support THEN ErrAllocTxnIdNotImplemented
    ELSE Ok

\* session::commit_transaction, session::rollback_transaction
DischargeResult(session, open, txn_id) ==
    IF session = "dropped" THEN ErrInvalidSessionState
    ELSE IF txn_id \notin open THEN ErrTxnUnknownId
    ELSE Ok

\* a dispose that does not notice that the session is gone
DisposeResult_IgnoresSession(session, link) ==
    IF link # "Attached" THEN ErrIllegalState ELSE Ok

\* ReceiverInner::dispose
DisposeResult(session, link) ==
    IF session = "dropped" THEN ErrIllegalSessionState
    ELSE IF link # "Attached" THEN ErrIllegalState
    ELSE Ok

\* on_declare: a Declare with a global id allocates nothing
OnDeclareAllocates(global_id) == global_id = None

\* a Declared that names the first transaction id, whatever was granted
DeclaredOutcome_FirstId(delivery_id, txn_id) ==
    Disposition(delivery_id, "Declared", 1, Ok)

\* SuccessfulOutcome::Declared(Declared { txn_id })
DeclaredOutcome(delivery_id, txn_id) ==
    Disposition(delivery_id, "Declared", txn_id, Ok)

\* SuccessfulOutcome::Accepted
AcceptedOutcome(delivery_id) == Disposition(delivery_id, "Accepted", NoTxn, Ok)

\* a discharge that rolls back unless fail is false
DischargeRequest_RollbackUnlessFalse(fail) ==
    IF fail = Some(FALSE) THEN "commit" ELSE "rollback"

\* on_discharge: Some(true) rolls back, Some(false) and None commit
DischargeRequest(fail) ==
    IF fail = Some(TRUE) THEN "rollback" ELSE "commit"

\* a rejection that passes the coordinator's error on as it is
RejectionOf_Unmapped(error) == error

\* handle_delivery_result: the transaction error a CoordinatorError is
\* rejected with
RejectionOf(error) ==
    IF error \in { ErrGlobalIdNotImplemented, ErrAllocTxnIdNotImplemented }
    THEN ErrTxnUnknownId
    ELSE error

\* a coordinator on an attached control link, its session with or without
\* transaction-id allocation
InitCoord ==
    /\ coord_pc = "running"
    /\ coord_session = "alive"
    /\ coord_txn_support \in BOOLEAN
    /\ coord_link = "Attached"
    /\ coord_close_error = Ok
    /\ coord_open_txns = { }
    /\ coord_next_txn = 1
    /\ coord_requests = << >>
    /\ coord_dispositions = << >>
    /\ coord_last = NoReceived
    /\ coord_n = 0
    /\ CoordAlone

\* self.inner.recv() returns
CoordRecv(received) ==
    /\ coord_pc = "running"
    /\ coord_n < MaxDeliveries
    /\ coord_n' = coord_n + 1
    /\ coord_last' = received

\* close_with_error, then Running::Stop
CoordCloseAndStop(error) ==
    /\ coord_link' = "Closed"
    /\ coord_close_error' = error
    /\ coord_pc' = "stopped"

\* Running::Stop with the link left as it is
CoordStop ==
    /\ coord_pc' = "stopped"
    /\ UNCHANGED << coord_link, coord_close_error >>

\* handle_delivery_result: res is Ok with the outcome to dispose, or the
\* CoordinatorError
HandleDeliveryResult(delivery_id, res, outcome) ==
    IF res = ErrInvalidSessionState
    THEN /\ CoordStop
         /\ UNCHANGED coord_dispositions
    ELSE LET state == IF res = Ok THEN outcome
                      ELSE Disposition(delivery_id, "Rejected", NoTxn, RejectionOf(res))
             disposed == DisposeResult(coord_session, coord_link)
         IN
         IF disposed = Ok
         THEN /\ coord_dispositions' = Append(coord_dispositions, state)
              /\ UNCHANGED << coord_pc, coord_link, coord_close_error >>
         ELSE IF disposed = ErrIllegalState
         THEN /\ CoordCloseAndStop(ErrIllegalState)
              /\ UNCHANGED coord_dispositions
         ELSE /\ CoordStop
              /\ UNCHANGED coord_dispositions

\* on_delivery, ControlMessageBody::Declare
CoordOnDeclare ==
    \E global_id \in GlobalIds :
      LET delivery_id == coord_n
          res == IF OnDeclareAllocates(global_id)
                 THEN AllocateResult(coord_session, coord_txn_support)
                 ELSE ErrGlobalIdNotImplemented
          granted == IF res = Ok THEN coord_next_txn ELSE NoTxn
      IN
      /\ CoordRecv(Received("Declare", delivery_id, global_id, NoTxn, None, Ok))
      /\ IF OnDeclareAllocates(global_id)
         THEN coord_requests' = Append(coord_requests, Request("allocate", granted, res))
         ELSE UNCHANGED coord_requests
      /\ IF res = Ok
         THEN /\ coord_open_txns' = coord_open_txns \cup { granted }
              /\ coord_next_txn' = coord_next_txn + 1
         ELSE UNCHANGED << coord_open_txns, coord_next_txn >>
      /\ HandleDeliveryResult(delivery_id, res, DeclaredOutcome(delivery_id, granted))
      /\ UNCHANGED << coord_session, coord_txn_support >>
      /\ UNCHANGED << connVars, exceptCoord >>

\* on_delivery, ControlMessageBody::Discharge
CoordOnDischarge ==
    \E txn_id \in TxnIds, fail \in Fails :
      LET delivery_id == coord_n
          res == DischargeResult(coord_session, coord_open_txns, txn_id)
      IN
      /\ CoordRecv(Received("Discharge", delivery_id, None, txn_id, fail, Ok))
      /\ coord_requests' = Append(coord_requests, Request(DischargeRequest(fail), txn_id, res))
      /\ coord_open_txns' = IF res = Ok THEN coord_open_txns \ { txn_id } ELSE coord_open_txns
      /\ HandleDeliveryResult(delivery_id, res, AcceptedOutcome(delivery_id))
      /\ UNCHANGED << coord_session, coord_txn_support, coord_next_txn >>
      /\ UNCHANGED << connVars, exceptCoord >>

\* on_delivery, Body::Sequence | Body::Data
CoordOnDataOrSequence ==
    \E kind \in { "Data", "Sequence" } :
      /\ CoordRecv(Received(kind, coord_n, None, NoTxn, None, Ok))
      /\ CoordCloseAndStop(ErrDecode)
      /\ UNCHANGED << coord_session, coord_txn_support, coord_open_txns,
                      coord_next_txn, coord_requests, coord_dispositions >>
      /\ UNCHANGED << connVars, exceptCoord >>

\* on_recv_error
CoordOnRecvError ==
    \E error \in RecvErrors :
      /\ CoordRecv(Received("RecvError", coord_n, None, NoTxn, None, error))
      /\ LET reaction == OnRecvErrorReaction(error) IN
         CASE reaction.call = "close_with_error" -> CoordCloseAndStop(reaction.error)
           [] reaction.call = "send_detach" ->
                /\ coord_link' = "Detached"
                /\ coord_pc' = "stopped"
                /\ UNCHANGED coord_close_error
           [] OTHER -> CoordStop
      /\ UNCHANGED << coord_session, coord_txn_support, coord_open_txns,
                      coord_next_txn, coord_requests, coord_dispositions >>
      /\ UNCHANGED << connVars, exceptCoord >>

\* the session stops while the coordinator runs
CoordSessionDrops ==
    /\ coord_pc = "running"
    /\ coord_session = "alive"
    /\ coord_session' = "dropped"
    /\ UNCHANGED << coord_pc, coord_txn_support, coord_link, coord_close_error,
                    coord_open_txns, coord_next_txn, coord_requests,
                    coord_dispositions, coord_last, coord_n >>
    /\ UNCHANGED << connVars, exceptCoord >>

NextCoord ==
    \/ CoordOnDeclare
    \/ CoordOnDischarge
    \/ CoordOnDataOrSequence
    \/ CoordOnRecvError
    \/ CoordSessionDrops

SpecCoord == InitCoord /\ [][NextCoord]_vars

\* ------------------------------------------------------------------------
\* The type codec: Value, to_vec, from_reader
\* ------------------------------------------------------------------------

\* EncodingCodes: the format codes named in the documentation of Value
EncodingCodes ==
    [ DescribedType |-> 0,
      Null |-> 64, BooleanTrue |-> 65, BooleanFalse |-> 66, Uint0 |-> 67,
      Ulong0 |-> 68, List0 |-> 69,
      Ubyte |-> 80, Byte |-> 81, SmallUint |-> 82, SmallUlong |-> 83,
      SmallInt |-> 84, SmallLong |-> 85, Boolean |-> 86,
      Ushort |-> 96, Short |-> 97,
      Uint |-> 112, Int |-> 113, Float |-> 114, Char |-> 115, Decimal32 |-> 116,
      Ulong |-> 128, Long |-> 129, Double |-> 130, Timestamp |-> 131,
      Decimal64 |-> 132,
      Decimal128 |-> 148, Uuid |-> 152,
      VBin8 |-> 160, Str8 |-> 161, Sym8 |-> 163,
      VBin32 |-> 176, Str32 |-> 177, Sym32 |-> 179,
      List8 |-> 192, Map8 |-> 193, List32 |-> 208, Map32 |-> 209,
      Array8 |-> 224, Array32 |-> 240 ]

\* a Value: its variant, the octets of a scalar in network byte order (a
\* Bool is the octet 1 or 0), and the items of a List or an Array; the
\* items of a Map are its keys and values in the order of the BTreeMap,
\* key1, value1, key2, value2, ...
Val(type, bytes, items) == [ type |-> type, bytes |-> bytes, items |-> items ]

ValueNull == Val("Null", << >>, << >>)

\* the variants of Value besides Described, in the order of the enum
ValueVariants ==
    << "Null", "Bool", "Ubyte", "Ushort", "Uint", "Ulong", "Byte", "Short",
       "Int", "Long", "Float", "Double", "Decimal32", "Decimal64",
       "Decimal128", "Char", "Timestamp", "Uuid", "Binary", "String",
       "Symbol", "List", "Map", "Array" >>

\* fixed_width: the octets a scalar of a variant holds
TypeWidth(type) ==
    CASE type = "Null" -> 0
      [] type \in { "Bool", "Ubyte", "Byte" } -> 1
      [] type \in { "Ushort", "Short" } -> 2
      [] type \in { "Uint", "Int", "Float", "Decimal32", "Char" } -> 4
      [] type \in { "Ulong", "Long", "Double", "Decimal64", "Timestamp" } -> 8
      [] type \in { "Decimal128", "Uuid" } -> 16
      [] OTHER -> 0

\* the encodings of a variant, the shortest first
FormatCodes(type) ==
    CASE type = "Null" -> << 64 >>
      [] type = "Bool" -> << 65, 66, 86 >>
      [] type = "Ubyte" -> << 80 >>
      [] type = "Ushort" -> << 96 >>
      [] type = "Uint" -> << 67, 82, 112 >>
      [] type = "Ulong" -> << 68, 83, 128 >>
      [] type = "Byte" -> << 81 >>
      [] type = "Short" -> << 97 >>
      [] type = "Int" -> << 84, 113 >>
      [] type = "Long" -> << 85, 129 >>
      [] type = "Float" -> << 114 >>
      [] type = "Double" -> << 130 >>
      [] type = "Decimal32" -> << 116 >>
      [] type = "Decimal64" -> << 132 >>
      [] type = "Decimal128" -> << 148 >>
      [] type = "Char" -> << 115 >>
      [] type = "Timestamp" -> << 131 >>
      [] type = "Uuid" -> << 152 >>
      [] type = "Binary" -> << 160, 176 >>
      [] type = "String" -> << 161, 177 >>
      [] type = "Symbol" -> << 163, 179 >>
      [] type = "List" -> << 69, 192, 208 >>
      [] type = "Map" -> << 193, 209 >>
      [] type = "Array" -> << 224, 240 >>

\* the category of a format code: its upper four bits
\*   4..9 fixed, 10/11 variable, 12/13 compound, 14/15 array
Category(code) == code \div 16

\* the octets that follow a fixed-width format code; the octets of the
\* length, size and count fields of the other categories
CodeWidth(code) ==
    CASE Category(code) = 4 -> 0
      [] Category(code) = 5 -> 1
      [] Category(code) = 6 -> 2
      [] Category(code) = 7 -> 4
      [] Category(code) = 8 -> 8
      [] Category(code) = 9 -> 16
      [] Category(code) \in { 10, 12, 14 } -> 1
      [] Category(code) \in { 11, 13, 15 } -> 4
      [] OTHER -> 0

\* n octets of zero
Zeros(n) == [ i \in 1 .. n |-> 0 ]

\* a length below 2^31 in w octets, network byte order
BigEndian(w, n) ==
    IF w = 1 THEN << n >>
    ELSE << n \div 16777216, ( n \div 65536 ) % 256, ( n \div 256 ) % 256, n % 256 >>

\* the number w octets in network byte order stand for
FromBigEndian(bytes) ==
    IF Len(bytes) = 1 THEN bytes[1]
    ELSE bytes[1] * 16777216 + bytes[2] * 65536 + bytes[3] * 256 + bytes[4]

\* the last w octets of a scalar
LowOctets(bytes, w) == SubSeq(bytes, Len(bytes) - w + 1, Len(bytes))

\* the octets before the last one repeat its sign: the number fits in i8
FitsInI8(bytes) ==
    LET sign == IF bytes[Len(bytes)] >= 128 THEN 255 ELSE 0
    IN  \A i \in 1 .. Len(bytes) - 1 : bytes[i] = sign

\* the octets before the last one are zero: the number fits in u8
FitsInU8(bytes) == \A i \in 1 .. Len(bytes) - 1 : bytes[i] = 0

RECURSIVE EncodeWith(_, _), EncodeBody(_, _), EncodeItems(_), EncodeBodies(_, _),
          Fits(_, _), ChooseCode(_, _, _)

\* whether the format code can hold the value
Fits(code, v) ==
    CASE code = 65 -> v.bytes = << 1 >>
      [] code = 66 -> v.bytes = << 0 >>
      [] code \in { 67, 68 } -> v.bytes = Zeros(Len(v.bytes))
      [] code = 69 -> v.items = << >>
      [] code \in { 82, 83 } -> FitsInU8(v.bytes)
      [] code \in { 84, 85 } -> FitsInI8(v.bytes)
      [] Category(code) = 10 -> Len(v.bytes) <= 255
      [] Category(code) = 12 ->
            /\ Len(v.items) <= 255
            /\ 1 + Len(EncodeItems(v.items)) <= 255
      [] Category(code) = 14 ->
            /\ Len(v.items) <= 255
            /\ 2 + Len(EncodeBodies(ChooseCode(FormatCodes(v.items[1].type), 1, v.items),
                                    v.items)) <= 255
      [] OTHER -> TRUE

\* the first of the codes, from position i on, that holds every value
ChooseCode(codes, i, values) ==
    IF i = Len(codes) \/ \A k \in 1 .. Len(values) : Fits(codes[i], values[k])
    THEN codes[i]
    ELSE ChooseCode(codes, i + 1, values)

\* the octets that follow the format code
EncodeBody(code, v) ==
    CASE Category(code) \in 4 .. 9 -> LowOctets(v.bytes, CodeWidth(code))
      [] Category(code) \in { 10, 11 } ->
            BigEndian(CodeWidth(code), Len(v.bytes)) \o v.bytes
      [] Category(code) \in { 12, 13 } ->
            LET items == EncodeItems(v.items)
                w == CodeWidth(code)
            IN  BigEndian(w, w + Len(items)) \o BigEndian(w, Len(v.items)) \o items
      [] Category(code) \in { 14, 15 } ->
            LET elem == ChooseCode(FormatCodes(v.items[1].type), 1, v.items)
                bodies == EncodeBodies(elem, v.items)
                w == CodeWidth(code)
            IN  BigEndian(w, w + 1 + Len(bodies)) \o BigEndian(w, Len(v.items))
                    \o << elem >> \o bodies

\* the value in the encoding a format code names
EncodeWith(code, v) == << code >> \o EncodeBody(code, v)

\* to_vec: the value in the shortest encoding that holds it
Encode(v) == EncodeWith(ChooseCode(FormatCodes(v.type), 1, << v >>), v)

\* the items of a list or a map, each with its own format code
EncodeItems(items) ==
    IF items = << >> THEN << >>
    ELSE Encode(Head(items)) \o EncodeItems(Tail(items))

\* the elements of an array, all in the encoding of the array's constructor
EncodeBodies(code, items) ==
    IF items = << >> THEN << >>
    ELSE EncodeBody(code, Head(items)) \o EncodeBodies(code, Tail(items))

\* the result of decoding: a value and the octets after it, or an error
Decoded(ok, value, rest) == [ ok |-> ok, value |-> value, rest |-> rest ]

DecodeError == Decoded(FALSE, ValueNull, << >>)

\* FieldVisitor::visit_u8, the arms of its match: the variant of Value a
\* format code selects; a described type is refused
FieldTable(code) ==
    CASE code = 64 -> "Null"
      [] code \in { 86, 66, 65 } -> "Bool"
      [] code = 80 -> "Ubyte"
      [] code = 96 -> "Ushort"
      [] code \in { 112, 67, 82 } -> "Uint"
      [] code \in { 128, 68, 83 } -> "Ulong"
      [] code = 81 -> "Byte"
      [] code = 97 -> "Short"
      [] code \in { 113, 84 } -> "Int"
      [] code \in { 129, 85 } -> "Long"
      [] code = 114 -> "Float"
      [] code = 130 -> "Double"
      [] code = 116 -> "Decimal32"
      [] code = 132 -> "Decimal64"
      [] code = 148 -> "Decimal128"
      [] code = 115 -> "Char"
      [] code = 131 -> "Timestamp"
      [] code = 152 -> "Uuid"
      [] code \in { 176, 160 } -> "Binary"
      [] code \in { 177, 161 } -> "String"
      [] code \in { 179, 163 } -> "Symbol"
      [] code \in { 69, 208, 192 } -> "List"
      [] code \in { 209, 193 } -> "Map"
      [] code \in { 240, 224 } -> "Array"
      [] OTHER -> "Unsupported"

\* a FieldVisitor that takes smalluint for a ubyte
FieldOf_SmallUintIsUbyte(code) ==
    IF code = 82 THEN "Ubyte" ELSE FieldTable(code)

\* FieldVisitor::visit_u8: an octet that is no format code is refused by
\* try_into, a format code goes through the match
FieldOf(code) == FieldTable(code)

\* the octets of a scalar read in the encoding of a format code
ScalarOf(type, code, body) ==
    CASE code = 65 -> << 1 >>
      [] code = 66 -> << 0 >>
      [] code \in { 67, 68 } -> Zeros(TypeWidth(type))
      [] code \in { 82, 83 } -> Zeros(TypeWidth(type) - 1) \o body
      [] code \in { 84, 85 } ->
            [ i \in 1 .. TypeWidth(type) - 1 |-> IF body[1] >= 128 THEN 255 ELSE 0 ]
                \o body
      [] OTHER -> body

\* lexicographic order of octet strings
RECURSIVE OctetsLess(_, _)
OctetsLess(a, b) ==
    IF b = << >> THEN FALSE
    ELSE IF a = << >> THEN TRUE
    ELSE IF Head(a) # Head(b) THEN Head(a) < Head(b)
    ELSE OctetsLess(Tail(a), Tail(b))

VariantRank(type) == CHOOSE i \in 1 .. Len(ValueVariants) : ValueVariants[i] = type

\* the derived Ord of Value, for the keys of this model (unsigned integers,
\* strings and symbols): the variant first, then the content
ValueLess(a, b) ==
    \/ VariantRank(a.type) < VariantRank(b.type)
    \/ a.type = b.type /\ OctetsLess(a.bytes, b.bytes)

\* BTreeMap::insert into the entries key1, value1, key2, value2, ...
RECURSIVE MapInsert(_, _, _)
MapInsert(entries, key, value) ==
    IF entries = << >> THEN << key, value >>
    ELSE IF entries[1] = key THEN << key, value >> \o SubSeq(entries, 3, Len(entries))
    ELSE IF ValueLess(key, entries[1]) THEN << key, value >> \o entries
    ELSE << entries[1], entries[2] >>
            \o MapInsert(SubSeq(entries, 3, Len(entries)), key, value)

\* the BTreeMap collected from decoded keys and values
RECURSIVE MapOf(_)
MapOf(items) ==
    IF Len(items) < 2 THEN << >>
    ELSE MapInsert(MapOf(SubSeq(items, 1, Len(items) - 2)),
                   items[Len(items) - 1], items[Len(items)])

RECURSIVE DecodeBody(_, _), DecodeItems(_, _, _), DecodeBodies(_, _, _, _)

\* from_reader: one value from the head of the octets
Decode(buf) ==
    IF buf = << >> THEN DecodeError ELSE DecodeBody(Head(buf), Tail(buf))

\* the value that follows a format code
DecodeBody(code, buf) ==
    LET field == FieldOf(code)
        w == CodeWidth(code)
    IN  IF field = "Unsupported" THEN DecodeError
        ELSE IF Category(code) \in 4 .. 9
        THEN IF Len(buf) < w THEN DecodeError
             ELSE Decoded(TRUE,
                          Val(field, ScalarOf(field, code, SubSeq(buf, 1, w)), << >>),
                          SubSeq(buf, w + 1, Len(buf)))
        ELSE IF Len(buf) < w THEN DecodeError
        ELSE LET size == FromBigEndian(SubSeq(buf, 1, w)) IN
             IF Len(buf) < w + size THEN DecodeError
             ELSE LET content == SubSeq(buf, w + 1, w + size)
                      rest == SubSeq(buf, w + size + 1, Len(buf))
                  IN  IF Category(code) \in { 10, 11 }
                      THEN Decoded(TRUE, Val(field, content, << >>), rest)
                      ELSE IF Len(content) < w THEN DecodeError
                      ELSE LET count == FromBigEndian(SubSeq(content, 1, w))
                               body == SubSeq(content, w + 1, Len(content))
                           IN  IF Category(code) \in { 12, 13 }
                               THEN LET r == DecodeItems(body, count, << >>) IN
                                    IF ~ r.ok \/ r.rest # << >> THEN DecodeError
                                    ELSE IF field = "Map"
                                    THEN IF count % 2 # 0 THEN DecodeError
                                         ELSE Decoded(TRUE, Val(field, << >>, MapOf(r.value)), rest)
                                    ELSE Decoded(TRUE, Val(field, << >>, r.value), rest)
                               ELSE IF body = << >> THEN DecodeError
                               ELSE LET r == DecodeBodies(Head(body), Tail(body), count, << >>) IN
                                    IF ~ r.ok \/ r.rest # << >> THEN DecodeError
                                    ELSE Decoded(TRUE, Val(field, << >>, r.value), rest)

\* count values, each with its own format code
DecodeItems(buf, count, items) ==
    IF count = 0 THEN Decoded(TRUE, items, buf)
    ELSE LET r == Decode(buf) IN
         IF ~ r.ok THEN DecodeError
         ELSE DecodeItems(r.rest, count - 1, Append(items, r.value))

\* count elements of an array, all in the encoding of its constructor
DecodeBodies(code, buf, count, items) ==
    IF count = 0 THEN Decoded(TRUE, items, buf)
    ELSE LET r == DecodeBody(code, buf) IN
         IF ~ r.ok THEN DecodeError
         ELSE DecodeBodies(code, r.rest, count - 1, Append(items, r.value))

\* n octets, all b
Octets(n, b) == [ i \in 1 .. n |-> b ]

\* the scalar values of this model: for each variant its boundary values
ScalarValues ==
    { ValueNull, Val("Bool", << 1 >>, << >>), Val("Bool", << 0 >>, << >>) }
      \cup { Val("Ubyte", << b >>, << >>) : b \in { 0, 13, 255 } }
      \cup { Val("Byte", << b >>, << >>) : b \in { 13, 255 } }
      \cup { Val("Ushort", b, << >>) : b \in { << 5, 33 >>, << 255, 255 >> } }
      \cup { Val("Short", b, << >>) : b \in { << 5, 33 >>, << 255, 255 >> } }
      \cup { Val("Uint", b, << >>) :
               b \in { Zeros(4), << 0, 0, 0, 255 >>, << 0, 0, 1, 0 >>, Octets(4, 255) } }
      \cup { Val("Ulong", b, << >>) :
               b \in { Zeros(8), Zeros(7) \o << 255 >>, Zeros(6) \o << 1, 0 >>,
                       Octets(8, 255) } }
      \cup { Val("Int", b, << >>) :
               b \in { Zeros(4), << 0, 0, 0, 127 >>, << 0, 0, 0, 128 >>,
                       << 0, 0, 0, 255 >>, Octets(4, 255), << 255, 255, 255, 128 >>,
                       << 255, 255, 255, 127 >>, << 127, 255, 255, 255 >>,
                       << 128, 0, 0, 0 >> } }
      \cup { Val("Long", b, << >>) :
               b \in { Zeros(8), Zeros(7) \o << 127 >>, Zeros(7) \o << 128 >>,
                       Octets(8, 255), Octets(7, 255) \o << 128 >>,
                       Octets(7, 255) \o << 127 >>, << 127 >> \o Octets(7, 255),
                       << 128 >> \o Zeros(7) } }
      \cup { Val("Float", << 63, 168, 16, 98 >>, << >>),
             Val("Double", << 64, 42, 66, 143, 92, 40, 245, 195 >>, << >>),
             Val("Decimal32", << 1, 2, 3, 4 >>, << >>),
             Val("Decimal64", << 1, 2, 3, 4, 5, 6, 7, 8 >>, << >>),
             Val("Decimal128", [ i \in 1 .. 16 |-> i ], << >>),
             Val("Char", << 0, 0, 0, 97 >>, << >>),
             Val("Timestamp", Zeros(7) \o << 13 >>, << >>),
             Val("Uuid", [ i \in 1 .. 16 |-> i ], << >>) }
      \cup { Val(t, b, << >>) :
               t \in { "Binary", "String", "Symbol" },
               b \in { << >>, << 97, 109, 113, 112 >>, Octets(255, 97), Octets(256, 97) } }

\* the lists, maps and arrays of this model
CompoundValues ==
    LET uint(n) == Val("Uint", << 0, 0, 0, n >>, << >>)
        int(n) == Val("Int", << 0, 0, 0, n >>, << >>)
        bool(b) == Val("Bool", << b >>, << >>)
        bin(n) == Val("Binary", Octets(n, 7), << >>)
        list(items) == Val("List", << >>, items)
    IN  { list(<< >>),
          list(<< uint(1), uint(2), uint(3), uint(4) >>),
          list(<< ValueNull, bool(1), Val("String", << 97 >>, << >>) >>),
          list(<< list(<< >>), list(<< uint(0) >>) >>),
          list(<< bin(252) >>), list(<< bin(253) >>), list(<< bin(256) >>),
          Val("Map", << >>, << >>),
          Val("Map", << >>, << uint(13), bool(1), uint(45), bool(0) >>),
          Val("Map", << >>, << uint(1), bin(256) >>),
          Val("Array", << >>, << int(1), int(2), int(3), int(4) >>),
          Val("Array", << >>, << int(1), int(128) >>),
          Val("Array", << >>, << bool(1), bool(1) >>),
          Val("Array", << >>, << bool(1), bool(0) >>),
          Val("Array", << >>, << Val("Symbol", << 97 >>, << >>) >>),
          Val("Array", << >>, << bin(256) >>) }

\* the Values handed to to_vec
Values == ScalarValues \cup CompoundValues

\* octets received from a peer: legal encodings that are not the shortest,
\* and described values (a described list, a described null, a described
\* value whose body is described)
ReceivedOctets ==
    { << 112, 0, 0, 0, 5 >>, << 86, 1 >>, << 208, 0, 0, 0, 4, 0, 0, 0, 0 >>,
      << 177, 0, 0, 0, 1, 97 >>,
      << 0, 83, 16, 192, 1, 0 >>,
      << 0, 163, 4, 97, 109, 113, 112, 64 >>,
      << 0, 83, 1, 0, 83, 2, 64 >>,
      << 0, 83, 1, 82, 7 >> }

InitCodec ==
    /\ \/ /\ codec_pc = "value"
          /\ codec_value \in Values
          /\ codec_buf = << >>
       \/ /\ codec_pc = "received"
          /\ codec_value = ValueNull
          /\ codec_buf \in ReceivedOctets
    /\ codec_decoded = None
    /\ CodecAlone

\* to_vec(&value)
CodecToVec ==
    /\ codec_pc = "value"
    /\ codec_buf' = Encode(codec_value)
    /\ codec_pc' = "encoded"
    /\ UNCHANGED << codec_value, codec_decoded >>
    /\ UNCHANGED << connVars, exceptCodec >>

\* from_reader(buf) for a Value
CodecFromReader ==
    /\ codec_pc \in { "encoded", "received" }
    /\ codec_decoded' = Decode(codec_buf)
    /\ codec_pc' = IF codec_pc = "encoded" THEN "decoded" ELSE "parsed"
    /\ UNCHANGED << codec_value, codec_buf >>
    /\ UNCHANGED << connVars, exceptCodec >>

NextCodec ==
    \/ CodecToVec
    \/ CodecFromReader

SpecCodec == InitCodec /\ [][NextCodec]_vars

\* ------------------------------------------------------------------------
\* Attach errors: SenderAttachError, ReceiverAttachError and their
\* conversion to definitions::Error
\* ------------------------------------------------------------------------

\* AllocLinkError
AllocLinkErrors == { "IllegalSessionState", "DuplicatedLinkName" }

\* DetachError
DetachErrors ==
    { "IllegalState", "IllegalSessionState", "NonDetachFrameReceived",
      "RemoteDetachedWithError", "ClosedByRemote", "DetachedByRemote",
      "RemoteClosedWithError" }

\* SendAttachErrorKind
SendAttachErrorKinds == { "IllegalState", "IllegalSessionState" }

\* the variants of SenderAttachError and of ReceiverAttachError
AttachErrorVariants(role) ==
    { "IllegalSessionState", "DuplicatedLinkName", "IllegalState",
      "NonAttachFrameReceived", "ExpectImmediateDetach", "IncomingSourceIsNone",
      "IncomingTargetIsNone", "CoordinatorIsNotImplemented",
      "DynamicNodePropertiesIsSomeWhenDynamicIsFalse", "RemoteClosedWithError" }
      \cup IF role = "sender"
           THEN { "TargetAddressIsNoneWhenDynamicIsTrue",
                  "SourceAddressIsSomeWhenDynamicIsTrue",
                  "DesireTxnCapabilitiesNotSupported" }
           ELSE { "InitialDeliveryCountIsNone",
                  "TargetAddressIsSomeWhenDynamicIsTrue",
                  "SourceAddressIsNoneWhenDynamicIsTrue" }

\* an attach error: the variant and, for RemoteClosedWithError, the
\* condition of the remote error ("" otherwise)
AttachError(variant, remote) == [ variant |-> variant, remote |-> remote ]

\* what made the attach fail: an error of the session's link allocation
\* ("alloc"), of the detach that ends a refused attach ("detach"), of
\* sending the Attach ("send_attach"), or a check of the attach itself
AttachCause(origin, error, remote) ==
    [ origin |-> origin, error |-> error, remote |-> remote ]

\* the conditions a remote peer closes the link with in this model
RemoteConditions == { "amqp:internal-error", "amqp:link:stolen" }

AttachCauses(role) ==
    { AttachCause("alloc", e, "") : e \in AllocLinkErrors }
      \cup { AttachCause("detach", e, "") :
               e \in DetachErrors \ { "RemoteDetachedWithError", "RemoteClosedWithError" } }
      \cup { AttachCause("detach", e, r) :
               e \in { "RemoteDetachedWithError", "RemoteClosedWithError" },
               r \in RemoteConditions }
      \cup { AttachCause("send_attach", e, "") : e \in SendAttachErrorKinds }
      \cup { AttachCause("attach", e, "") :
               e \in AttachErrorVariants(role) \ { "RemoteClosedWithError" } }

\* a From<AllocLinkError> that swaps the two variants
FromAllocLinkError_Swapped(value) ==
    IF value = "DuplicatedLinkName" THEN "IllegalSessionState"
    ELSE "DuplicatedLinkName"

\* From<AllocLinkError> for SenderAttachError and for ReceiverAttachError
FromAllocLinkError(value) ==
    CASE value = "IllegalSessionState" -> "IllegalSessionState"
      [] value = "DuplicatedLinkName" -> "DuplicatedLinkName"

\* TryFrom<DetachError> for SenderAttachError and for ReceiverAttachError:
\* Some(error), or None where the conversion gives the DetachError back
TryFromDetachError(value, remote) ==
    CASE value = "IllegalState" -> Some(AttachError("IllegalState", ""))
      [] value = "IllegalSessionState" -> Some(AttachError("IllegalSessionState", ""))
      [] value \in { "RemoteDetachedWithError", "RemoteClosedWithError" } ->
            Some(AttachError("RemoteClosedWithError", remote))
      [] OTHER -> None

\* From<SendAttachErrorKind> for SenderAttachError and for ReceiverAttachError
FromSendAttachErrorKind(value) ==
    CASE value = "IllegalState" -> "IllegalState"
      [] value = "IllegalSessionState" -> "IllegalSessionState"

\* the attach error reported for a cause
AttachErrorOf(cause) ==
    CASE cause.origin = "alloc" -> Some(AttachError(FromAllocLinkError(cause.error), ""))
      [] cause.origin = "detach" -> TryFromDetachError(cause.error, cause.remote)
      [] cause.origin = "send_attach" ->
            Some(AttachError(FromSendAttachErrorKind(cause.error), ""))
      [] OTHER -> Some(AttachError(cause.error, ""))

\* TryFrom<&SenderAttachError> / TryFrom<&ReceiverAttachError> for
\* definitions::Error: Some(condition), or None where the conversion gives
\* the error back
ErrorConditionOf(role, variant) ==
    CASE variant = "IllegalSessionState" -> Some(ErrIllegalState)
      [] variant = "DuplicatedLinkName" -> Some("amqp:session:handle-in-use")
      [] variant = "IllegalState" -> Some(ErrIllegalState)
      [] variant = "NonAttachFrameReceived" -> Some(ErrNotAllowed)
      [] variant = "ExpectImmediateDetach" -> Some(ErrNotAllowed)
      [] variant = "CoordinatorIsNotImplemented" -> Some(ErrNotImplemented)
      [] variant = "DynamicNodePropertiesIsSomeWhenDynamicIsFalse" -> Some(ErrInvalidField)
      [] role = "receiver"
         /\ variant \in { "InitialDeliveryCountIsNone",
                          "TargetAddressIsSomeWhenDynamicIsTrue",
                          "SourceAddressIsNoneWhenDynamicIsTrue" } -> Some(ErrInvalidField)
      [] role = "sender"
         /\ variant \in { "TargetAddressIsNoneWhenDynamicIsTrue",
                          "SourceAddressIsSomeWhenDynamicIsTrue" } -> Some(ErrInvalidField)
      [] role = "sender" /\ variant = "DesireTxnCapabilitiesNotSupported" -> None
      [] variant \in { "IncomingSourceIsNone", "IncomingTargetIsNone",
                       "RemoteClosedWithError" } -> None

\* definitions::Error::new(condition, format!("{:?}", value), None)
WireError(condition, description) ==
    [ condition |-> condition, description |-> description ]

InitAttach ==
    /\ attach_pc = "failing"
    /\ attach_role \in { "sender", "receiver" }
    /\ attach_cause \in AttachCauses(attach_role)
    /\ attach_error = None
    /\ attach_wire = None
    /\ AttachAlone

\* the attach fails and reports its error
AttachFails ==
    /\ attach_pc = "failing"
    /\ attach_error' = AttachErrorOf(attach_cause)
    /\ attach_pc' = "failed"
    /\ UNCHANGED << attach_role, attach_cause, attach_wire >>
    /\ UNCHANGED << connVars, exceptAttach >>

\* definitions::Error::try_from(&error)
AttachErrorToWire ==
    /\ attach_pc = "failed"
    /\ attach_error # None
    /\ LET condition == ErrorConditionOf(attach_role, attach_error[1].variant) IN
       attach_wire' = IF condition = None THEN None
                      ELSE Some(WireError(condition[1], attach_error[1].variant))
    /\ attach_pc' = "converted"
    /\ UNCHANGED << attach_role, attach_cause, attach_error >>
    /\ UNCHANGED << connVars, exceptAttach >>

NextAttach ==
    \/ AttachFails
    \/ AttachErrorToWire

SpecAttach == InitAttach /\ [][NextAttach]_vars

\* ------------------------------------------------------------------------
\* AMQP over WebSocket: WebSocketStream::connect
\* ------------------------------------------------------------------------

\* http::StatusCode::SWITCHING_PROTOCOLS
SWITCHING_PROTOCOLS == 101

\* the values of a Sec-WebSocket-Protocol header in this model; "\xff" is a
\* value that HeaderValue::to_str refuses
ProtocolValues == { "amqp", "AMQP", "mqtt", "\\xff" }

\* a client request: whether into_client_request accepts it, its URI and
\* its Sec-WebSocket-Protocol header
ClientRequest(valid, uri, protocol) ==
    [ valid |-> valid, uri |-> uri, protocol |-> protocol ]

ClientRequests ==
    { ClientRequest(valid, uri, protocol) :
        valid \in BOOLEAN, uri \in { "ws://broker", "wss://broker" },
        protocol \in { None, Some("amqp"), Some("mqtt") } }

\* a handshake response: its status and its Sec-WebSocket-Protocol header
HandshakeResponse(status, protocol) == [ status |-> status, protocol |-> protocol ]

HandshakeResponses ==
    { HandshakeResponse(status, protocol) :
        status \in { SWITCHING_PROTOCOLS, 200, 400, 404 },
        protocol \in { None } \cup { Some(value) : value \in ProtocolValues } }

\* headers_mut().insert(SEC_WEBSOCKET_PROTOCOL, HeaderValue::from_static("amqp"))
map_amqp_websocket_request(req) == [ req EXCEPT !.protocol = Some("amqp") ]

\* a verify_response that looks at the status only
verify_response_StatusOnly(response) ==
    IF response.status # SWITCHING_PROTOCOLS
    THEN "StatucCodeIsNotSwitchingProtocols"
    ELSE "Ok"

\* verify_response: "Ok" or the error
verify_response(response) ==
    IF response.status # SWITCHING_PROTOCOLS
    THEN "StatucCodeIsNotSwitchingProtocols"
    ELSE IF response.protocol = None
    THEN "MissingSecWebSocketProtocol"
    ELSE IF response.protocol[1] = "\\xff"
    THEN "ToStrError"
    ELSE IF response.protocol[1] = "amqp"
    THEN "Ok"
    ELSE "SecWebSocketProtocolIsNotAmqp"

InitWs ==
    /\ ws_pc = "connect"
    /\ ws_request \in { Some(req) : req \in ClientRequests }
    /\ ws_response = None
    /\ ws_stream = "none"
    /\ ws_result = NoResult
    /\ WsAlone

\* connect up to the first await: the request is mapped and handed to
\* connect_async, or into_client_request fails and connect returns its error
WsConnect ==
    /\ ws_pc = "connect"
    /\ IF ws_request[1].valid
       THEN /\ ws_request' = Some(map_amqp_websocket_request(ws_request[1]))
            /\ ws_pc' = "connect_async"
            /\ UNCHANGED ws_result
       ELSE /\ ws_pc' = "returned"
            /\ ws_result' = "Tungstenite"
            /\ UNCHANGED ws_request
    /\ UNCHANGED << ws_response, ws_stream >>
    /\ UNCHANGED << connVars, exceptWs >>

\* connect_async fails: connect returns its error
WsConnectAsyncErr ==
    /\ ws_pc = "connect_async"
    /\ ws_pc' = "returned"
    /\ ws_result' = "Tungstenite"
    /\ UNCHANGED << ws_request, ws_response, ws_stream >>
    /\ UNCHANGED << connVars, exceptWs >>

\* connect_async gives the stream and the response: the response is
\* verified; connect returns the stream, or starts to close it
WsConnectAsyncOk ==
    /\ ws_pc = "connect_async"
    /\ \E response \in HandshakeResponses :
         /\ ws_response' = Some(response)
         /\ ws_stream' = "open"
         /\ IF verify_response(response) = "Ok"
            THEN /\ ws_pc' = "returned"
                 /\ ws_result' = "Ok"
            ELSE /\ ws_pc' = "close"
                 /\ UNCHANGED ws_result
    /\ UNCHANGED ws_request
    /\ UNCHANGED << connVars, exceptWs >>

\* ws_stream.close(None).await?; Err(error): the close succeeds and connect
\* returns the error of the response, or the close fails and connect
\* returns the error of the close; the stream is dropped either way
WsClose ==
    /\ ws_pc = "close"
    /\ \E closed \in BOOLEAN :
         /\ ws_stream' = IF closed THEN "closed" ELSE "dropped"
         /\ ws_result' = IF closed THEN verify_response(ws_response[1])
                         ELSE "Tungstenite"
    /\ ws_pc' = "returned"
    /\ UNCHANGED << ws_request, ws_response >>
    /\ UNCHANGED << connVars, exceptWs >>

NextWs ==
    \/ WsConnect
    \/ WsConnectAsyncErr
    \/ WsConnectAsyncOk
    \/ WsClose

SpecWs == InitWs /\ [][NextWs]_vars

\* ------------------------------------------------------------------------
\* Properties
\* ------------------------------------------------------------------------

IsPrefix(a, b) == Len(a) <= Len(b) /\ SubSeq(b, 1, Len(a)) = a

\* the session frames of a channel in a sequence of frames
OfChannel(frames, channel) ==
    SelectSeq(frames, LAMBDA f : f.channel = channel
                                 /\ f.body.perf \in SessionPerformatives)

\* the step handles an incoming frame (not an error of the stream)
IncomingStep == pc = "loop" /\ ev'.src = "incoming" /\ ev'.error = Ok

\* the conditions the specification calls peer-fatal
PeerFatal == { ErrIllegalState, ErrNotFound, ErrIdleTimeout, ErrFrameSize, ErrDecode }

\* C1: when handling an incoming frame, a control command, an outgoing
\* session frame or a heartbeat tick fails with a peer-fatal condition, a
\* Close frame carrying that error is the last frame written and the task
\* returns the error.
C1_PeerFatalErrorIsSentInClose ==
    ( /\ ev.src \in { "incoming", "control", "outgoing", "heartbeat" }
      /\ result \in PeerFatal )
    => /\ wire # << >>
       /\ wire[Len(wire)] = Frame(0, CloseBody(result))
       /\ pc = "returned_err"

\* C2: an incoming Attach, Flow, Transfer, Disposition or Detach fails with
\* illegal-state when the local state is not Opened, and with not-found
\* when it is Opened and no session is bound to the frame's channel; in
\* both cases no session mailbox changes.
C2_ForwardFailsWithoutDelivery ==
    [][ ( IncomingStep /\ ev'.frame.body.perf \in LinkPerformatives )
        => /\ ( local_state # "Opened"
                => result' = ErrIllegalState /\ session_rx' = session_rx )
           /\ ( ( /\ local_state = "Opened"
                  /\ session_by_incoming_channel[ev'.frame.channel] = NoSession )
                => result' = ErrNotFound /\ session_rx' = session_rx )
      ]_vars

\* C2, witness: an Attach .. Detach arrived after the connection had left
\* Opened and was refused with illegal-state
C2_Witness ==
    /\ ev.src = "incoming"
    /\ ev.error = Ok
    /\ ev.frame.body.perf \in LinkPerformatives
    /\ local_state \in { "CloseSent", "CloseReceived" }
    /\ result = ErrIllegalState
    /\ pc = "panicked"

C5_OutgoingRefusedUnlessOpened ==
    [][ ( pc = "loop" /\ ev'.src = "outgoing" /\ local_state # "Opened" )
        => /\ wire' = wire
           /\ result' = ErrIllegalState
           /\ local_state' = local_state
      ]_vars

\* C5, witness: a frame was taken from the mailbox after the connection had
\* left Opened, and refused
C5_Witness ==
    /\ ev.src = "outgoing"
    /\ ev.frame.body.perf \in SessionPerformatives
    /\ local_state \in { "CloseSent", "CloseReceived" }
    /\ result = ErrIllegalState

C7_MismatchEndsConnection ==
    ( inbound_buf # NoBuf /\ inbound_buf # HeaderToBytes(proto_header) )
    => /\ pc = "failed"
       /\ result # Ok
       /\ local_state = "End"

\* C8: negotiate started in Start writes the local header before it reads,
\* and when the peer answers with the same header it returns that header,
\* the local state having gone Start, HeaderSent, HeaderExchange.
C8_NegotiateFromStart ==
    /\ ( inbound_buf # NoBuf
         => io_written = << HeaderToBytes(proto_header) >> )
    /\ ( inbound_buf = HeaderToBytes(proto_header)
         => /\ pc \notin { "negotiate_send", "negotiate_recv" }
            /\ incoming_header = proto_header
            /\ SubSeq(state_hist, 1, 3) = << "Start", "HeaderSent", "HeaderExchange" >> )
    /\ ( pc = "negotiated"
         => /\ result = Ok
            /\ inbound_buf = HeaderToBytes(proto_header)
            /\ local_state = "HeaderExchange"
            /\ state_hist = << "Start", "HeaderSent", "HeaderExchange" >> )

\* C8, witness: negotiate has returned the header
C8_Witness ==
    /\ pc = "negotiated"
    /\ init_state = "Start"
    /\ incoming_header = proto_header

\* C9: negotiate called in a state other than Start fails with
\* illegal-state, writes no header byte and leaves the local state alone.
C9_NegotiateOutsideStartTouchesNothing ==
    ( init_state # "Start" /\ pc # "negotiate_send" )
    => /\ result = ErrIllegalState
       /\ pc = "failed"
       /\ io_written = << >>
       /\ local_state = init_state

\* C10: once a remote Open is processed, the transport's max frame size is
\* the smaller of the two declared values and is at least 512.
C10_MaxFrameSizeIsMinAndAtLeast512 ==
    remote_open.perf = "Open"
    => /\ max_frame_size
            = NegotiatedMaxFrameSize(local_max_frame_size, remote_open.max_frame_size)
       /\ max_frame_size >= MinMaxFrameSize

\* C11: once a remote Open is processed, a declared idle-timeout T > 0 sets
\* the heartbeat period to T / 2 (an empty frame goes out before T elapses)
\* and no declared idle-timeout leaves the heartbeat at never.
C11_HeartbeatIsHalfRemoteIdleTimeout ==
    remote_open.perf = "Open"
    => IF remote_open.idle_time_out > 0
       THEN heartbeat = remote_open.idle_time_out \div 2
       ELSE heartbeat = 0

\* a frame taken from the transport while open waits for the remote Open
OpenWaitStep == pc = "open_wait" /\ ev'.src = "open" /\ ev'.error = Ok

\* C13: an incoming empty frame, whatever the connection state, is handled
\* without error, leaves the connection state alone, reaches no session and
\* writes nothing.
C13_EmptyFrameAcceptedInEveryState ==
    [][ ( (IncomingStep \/ OpenWaitStep) /\ ev'.frame.body.perf = "Empty" )
        => /\ result' = Ok
           /\ local_state' = local_state
           /\ session_rx' = session_rx
           /\ wire' = wire ]_vars

\* a poll_next call, and what it returned
PollStep == Len(polled') = Len(polled) + 1
LastPolled == polled'[Len(polled')]

SaslReturned == sasl_pc \in { "done", "failed" }

\* the Outcome frames read
SaslOutcomes ==
    { i \in 1 .. Len(sasl_log) : sasl_log[i].kind = "frame" /\ sasl_log[i].dir = "read"
                                  /\ sasl_log[i].frame.kind = "Outcome" }

\* C14: connect_sasl returns the stream exactly when the server's Outcome
\* has code ok; an Outcome with another code fails with a SASL error that
\* carries the code and the additional data; the end of the stream before an
\* Outcome fails with unexpected-EOF.
C14_StreamReturnedIffOutcomeOk ==
    /\ SaslReturned
       => ( sasl_result.kind = Ok
            <=> \E i \in SaslOutcomes : sasl_log[i].frame.code = "Ok" )
    /\ \A i \in SaslOutcomes :
         /\ i = Len(sasl_log)
         /\ SaslReturned
         /\ sasl_log[i].frame.code # "Ok"
            => sasl_result = SaslReturn("SaslError", sasl_log[i].frame.code,
                                        sasl_log[i].frame.additional_data)
    /\ ( sasl_log # << >> /\ sasl_log[Len(sasl_log)].kind = "eof" )
       => /\ SaslOutcomes = { }
          /\ sasl_pc = "failed"
          /\ sasl_result.kind = "io:unexpected-eof"

\* Mechanisms and a Challenge came before an Outcome that is not ok
C14_Witness ==
    /\ sasl_pc = "failed"
    /\ sasl_result = SaslReturn("SaslError", "Auth", Some("data"))
    /\ SaslFramesRead(sasl_log) = 3

\* C15: the SASL header is the first thing written; a frame is read or
\* written only after the identical header was read back, a differing header
\* ends the negotiation at once; an Init is written only right after a
\* Mechanisms frame was read.
C15_HeaderThenMechanismsThenInit ==
    /\ sasl_log # << >>
       => sasl_log[1] = SaslLogEntry("write", "header", HeaderToBytes(HeaderSasl), NoSaslFrame)
    /\ \A i \in 1 .. Len(sasl_log) :
         /\ ( i > 1 /\ sasl_log[i].kind = "header" ) => ( i = 2 /\ sasl_log[i].dir = "read" )
         /\ sasl_log[i].kind # "header"
            => /\ i > 2
               /\ sasl_log[2].bytes = HeaderToBytes(HeaderSasl)
         /\ ( sasl_log[i].dir = "write" /\ sasl_log[i].kind = "frame" )
            => /\ sasl_log[i].frame.kind = "Init"
               /\ sasl_log[i - 1].dir = "read"
               /\ sasl_log[i - 1].frame.kind = "Mechanisms"
    /\ ( Len(sasl_log) >= 2 /\ sasl_log[2].bytes # HeaderToBytes(HeaderSasl) )
       => ( Len(sasl_log) = 2 /\ sasl_pc = "failed" )

\* after the header exchange, Mechanisms was answered with Init and the
\* server's Outcome ok ended the negotiation
C15_Witness ==
    /\ sasl_pc = "done"
    /\ Len(sasl_log) = 5
    /\ sasl_log[3].frame.kind = "Mechanisms"
    /\ sasl_log[4].dir = "write"
    /\ sasl_log[5].frame.kind = "Outcome"

\* an operation was called on the link
LinkStep == link_ops' = link_ops + 1

\* the moves of a link's local state
LinkMoves ==
    { << "Unattached", "AttachSent" >>, << "AttachReceived", "Attached" >>,
      << "Attached", "DetachSent" >>, << "DetachReceived", "Detached" >> }

\* the step wrote one frame: this performative, with this handle
LinkEmits(perf, handle) ==
    /\ Len(link_writer') = Len(link_writer) + 1
    /\ SubSeq(link_writer', 1, Len(link_writer)) = link_writer
    /\ link_writer'[Len(link_writer')].perf = perf
    /\ link_writer'[Len(link_writer')].handle = handle

\* what C16 says of the states in which the operations send
LinkSendsOnlyWhenLegal ==
    /\ link_state' # link_state => << link_state, link_state' >> \in LinkMoves
    /\ ( link_last'.op = "send_attach" /\ link_last'.result = Ok )
       => /\ link_state \in { "Unattached", "AttachReceived" }
          /\ link_state' = IF link_state = "Unattached" THEN "AttachSent" ELSE "Attached"
          /\ LinkEmits("Attach", output_handle[1])
    /\ ( link_last'.op = "send_detach" /\ link_last'.result = Ok )
       => /\ link_state \in { "Attached", "DetachReceived" }
          /\ link_state' = IF link_state = "Attached" THEN "DetachSent" ELSE "Detached"
          /\ LinkEmits("Detach", output_handle[1])
    /\ ( link_last'.op = "send_detach" /\ link_state \notin { "Attached", "DetachReceived" } )
       => /\ link_last'.result = ErrIllegalState
          /\ UNCHANGED << link_state, link_writer >>

CoordStep == coord_n' = coord_n + 1

\* the request made and the disposition emitted in a step
LastRequest == coord_requests'[Len(coord_requests')]
OneRequest == Len(coord_requests') = Len(coord_requests) + 1
Emits(disposition) == coord_dispositions' = Append(coord_dispositions, disposition)

\* a Declare without a global id was received
DeclareStep ==
    CoordStep /\ coord_last'.kind = "Declare" /\ coord_last'.global_id = None

GlobalDeclareStep ==
    CoordStep /\ coord_last'.kind = "Declare" /\ coord_last'.global_id # None

\* C18 as stated: a Declare with a global id is answered with Rejected,
\* transaction unknown-id; no id is allocated, the link stays attached and
\* the coordinator runs on.
C18_GlobalIdAlwaysRejected ==
    [][ GlobalDeclareStep
        => /\ Emits(Disposition(coord_n, "Rejected", NoTxn, ErrTxnUnknownId))
           /\ UNCHANGED << coord_requests, coord_open_txns, coord_next_txn >>
           /\ coord_link' = "Attached"
           /\ coord_pc' = "running" ]_vars

\* C18, amended: a Declare with a global id allocates no id and leaves the
\* link attached; while the session runs it is answered with Rejected,
\* transaction unknown-id, and the coordinator runs on; once the session has
\* stopped no disposition is emitted and the coordinator stops.
C18_GlobalIdRejectedWhileSessionRuns ==
    [][ GlobalDeclareStep
        => /\ UNCHANGED << coord_requests, coord_open_txns, coord_next_txn >>
           /\ coord_link' = "Attached"
           /\ IF coord_session = "alive"
              THEN /\ Emits(Disposition(coord_n, "Rejected", NoTxn, ErrTxnUnknownId))
                   /\ coord_pc' = "running"
              ELSE /\ UNCHANGED coord_dispositions
                   /\ coord_pc' = "stopped" ]_vars

\* a Declare with a global id was rejected, and the Declare after it was
\* granted an id
C18_Witness ==
    /\ coord_pc = "running"
    /\ coord_link = "Attached"
    /\ coord_dispositions = << Disposition(0, "Rejected", NoTxn, ErrTxnUnknownId),
                               Disposition(1, "Declared", 1, Ok) >>

\* a delivery that is no single amqp-value section with a Declare or a
\* Discharge in it
UndecodableStep ==
    /\ CoordStep
    /\ \/ coord_last'.kind \in { "Data", "Sequence" }
       \/ coord_last'.kind = "RecvError" /\ coord_last'.error = "MessageDecodeError"

\* C19: such a delivery makes the coordinator close the link with
\* amqp:decode-error and stop, with no disposition and no request to the
\* session.
C19_UndecodableClosesWithDecodeError ==
    [][ UndecodableStep
        => /\ coord_link' = "Closed"
           /\ coord_close_error' = ErrDecode
           /\ coord_pc' = "stopped"
           /\ UNCHANGED << coord_dispositions, coord_requests, coord_open_txns >> ]_vars

\* a Discharge was received
DischargeStep == CoordStep /\ coord_last'.kind = "Discharge"

\* the one request a Discharge makes: rollback exactly when fail is true,
\* commit otherwise, of the transaction named
DischargeRequested ==
    /\ OneRequest
    /\ LastRequest.txn_id = coord_last'.txn_id
    /\ LastRequest.op = IF coord_last'.fail = Some(TRUE) THEN "rollback" ELSE "commit"
    /\ LastRequest.op = "commit" <=> coord_last'.fail \in { None, Some(FALSE) }

EventLoopReturnedOk == pc = "stopped"

\* C21: whenever the event loop returns Ok the local state is End, whether
\* the loop stopped because the control mailbox closed, the outgoing
\* session frame mailbox closed or the incoming stream ended.
C21_ReturnsOkOnlyAtEnd ==
    EventLoopReturnedOk => local_state = "End"

\* the Transfer frames written for a channel
TransfersOf(frames, channel) ==
    SelectSeq(frames, LAMBDA f : f.channel = channel /\ f.body.perf = "Transfer")

\* the last Transfer written for the channel has more = true and the final
\* Transfer of the delivery is waiting in the mailbox
TransferStarted(channel) ==
    /\ TransfersOf(wire, channel) # << >>
    /\ TransfersOf(wire, channel)[Len(TransfersOf(wire, channel))].body.more
    /\ \E i \in 1 .. Len(outgoing_session_frames) :
         /\ outgoing_session_frames[i].channel = channel
         /\ outgoing_session_frames[i].body.perf = "Transfer"
         /\ ~ outgoing_session_frames[i].body.more

\* C22: once a Transfer with more = true has been written, the event loop
\* does not stop while the final Transfer of that delivery, already
\* submitted by the session, is still waiting to be written.
C22_NoStopInsideATransfer ==
    [][ ( pc = "loop" /\ \E c \in Channels : TransferStarted(c) )
        => ~ EventLoopReturnedOk'
      ]_vars

\* the Transfer frames the link has written
TransfersEmitted == { i \in 1 .. Len(link_writer) : link_writer[i].perf = "Transfer" }

\* C23: after any sequence of sends and incoming Dispositions the link has
\* processed each of them, and the keys of its unsettled map are the
\* delivery-tags of the Transfers it emitted that no Disposition settled:
\* none while no Transfer was emitted.
C23_UnsettledKeysAreOpenDeliveries ==
    /\ link_last.op \in { "send_transfer", "on_incoming_disposition" }
       => link_last.result = Ok
    /\ TransfersEmitted = {} => DOMAIN link_fields.unsettled = {}

\* the link processes a remote Attach
IncomingAttachStep == LinkStep /\ link_last'.op = "on_incoming_attach"

\* C28: a link in AttachSent that processes the remote Attach is Attached;
\* a link that processes the remote Attach before sending its own is in
\* AttachReceived.
C28_RemoteAttachMovesTheState ==
    [][ IncomingAttachStep
        => /\ link_state = "AttachSent" => link_state' = "Attached"
           /\ link_state = "Unattached" => link_state' = "AttachReceived"
      ]_vars

\* the smaller of two limits where 0 is "no limit"
SmallerLimit(local, remote) ==
    IF local = 0 THEN remote
    ELSE IF remote = 0 THEN local
    ELSE IF remote < local THEN remote ELSE local

\* C29: after the remote Attach is processed max_message_size is the smaller
\* of the local and the remote limit, zero or absent meaning no limit.
C29_MaxMessageSizeIsSmallerLimit ==
    [][ IncomingAttachStep
        => link_fields'.max_message_size =
             SmallerLimit(link_fields.max_message_size,
                          IF link_attach'[1].max_message_size = None THEN 0
                          ELSE link_attach'[1].max_message_size[1])
      ]_vars

\* C30: processing a remote Attach records the remote handle as the input
\* handle and replaces the target with the remote Attach's target; source,
\* name, settle modes, unsettled map and output handle stay as they are.
C30_RemoteAttachSetsHandleAndTarget ==
    [][ IncomingAttachStep
        => /\ input_handle' = Some(link_attach'[1].handle)
           /\ link_fields'.target = link_attach'[1].target
           /\ link_fields'.source = link_fields.source
           /\ link_fields'.name = link_fields.name
           /\ link_fields'.snd_settle_mode = link_fields.snd_settle_mode
           /\ link_fields'.rcv_settle_mode = link_fields.rcv_settle_mode
           /\ link_fields'.unsettled = link_fields.unsettled
           /\ output_handle' = output_handle
      ]_vars

\* a link with a source and an output handle processed a remote Attach
\* whose handle and target differ from its own
C30_Witness ==
    /\ link_last.op = "on_incoming_attach"
    /\ link_attach = Some(IncomingAttach(1, Some("remote-target"), Some(100)))
    /\ input_handle = Some(1)
    /\ output_handle = Some(0)
    /\ link_fields.target = Some("remote-target")
    /\ link_fields.source = Some("local-source")

\* the encodings that can hold a value
LegalCodes(v) ==
    { FormatCodes(v.type)[i] : i \in 1 .. Len(FormatCodes(v.type)) }
        \cap { c \in 0 .. 255 : Fits(c, v) }

C25_DescribedValueDecodes ==
    ( codec_pc = "parsed" /\ Head(codec_buf) = EncodingCodes.DescribedType )
    => /\ codec_decoded.ok
       /\ codec_decoded.value.type = "Described"

\* C26: a link name already in use is reported as DuplicatedLinkName by
\* sender and receiver alike and converts to session:handle-in-use; an
\* attach error converts to one condition or to none; IncomingSourceIsNone,
\* IncomingTargetIsNone and RemoteClosedWithError convert to none.
C26_DuplicatedLinkNameIsHandleInUse ==
    /\ ( attach_pc \in { "failed", "converted" }
         /\ attach_cause = AttachCause("alloc", "DuplicatedLinkName", "") )
       => attach_error = Some(AttachError("DuplicatedLinkName", ""))
    /\ attach_pc = "converted"
       => /\ attach_error[1].variant = "DuplicatedLinkName"
             => /\ attach_wire # None
                /\ attach_wire[1].condition = "amqp:session:handle-in-use"
          /\ attach_error[1].variant \in { "IncomingSourceIsNone", "IncomingTargetIsNone",
                                          "RemoteClosedWithError" }
             => attach_wire = None
          /\ Len(attach_wire) <= 1

\* a receiver's attach met a name in use and the error was converted
C26_Witness ==
    /\ attach_pc = "converted"
    /\ attach_role = "receiver"
    /\ attach_cause = AttachCause("alloc", "DuplicatedLinkName", "")
    /\ attach_wire = Some(WireError("amqp:session:handle-in-use", "DuplicatedLinkName"))

LastWritten == link_writer'[Len(link_writer')]

\* the step wrote a frame
LinkWrote == Len(link_writer') = Len(link_writer) + 1

\* C31: every Attach a sender link emits has role sender, an
\* initial-delivery-count, the link's local handle, an unsettled field that
\* is there exactly when the link's unsettled map is not empty, and then is
\* that map, and a max-message-size that is absent exactly when the link's
\* limit is zero; without a local handle send_attach fails with
\* invalid-field and emits nothing.
C31_AttachCarriesTheLinkFields ==
    [][ ( LinkStep /\ link_last'.op = "send_attach" )
        => /\ LinkWrote
              => /\ link_last'.result = Ok
                 /\ output_handle # None
                 /\ link_writer' = Append(link_writer, LastWritten)
                 /\ LastWritten.perf = "Attach"
                 /\ LastWritten.role = "sender"
                 /\ LastWritten.initial_delivery_count # None
                 /\ LastWritten.handle = output_handle[1]
                 /\ LastWritten.unsettled # None
                      <=> DOMAIN link_fields.unsettled # {}
                 /\ LastWritten.unsettled # None
                      => LastWritten.unsettled[1] = link_fields.unsettled
                 /\ LastWritten.max_message_size = None
                      <=> link_fields.max_message_size = 0
                 /\ LastWritten.max_message_size # None
                      => LastWritten.max_message_size[1] = link_fields.max_message_size
           /\ link_last'.result = Ok => LinkWrote
           /\ ~ LinkWrote => UNCHANGED link_writer
           /\ output_handle = None
              => /\ link_last'.result = ErrInvalidField
                 /\ UNCHANGED link_writer ]_vars

\* a resumed link without a size limit sent its Attach: the unsettled map
\* is in it, a max-message-size is not
C31_Witness ==
    /\ link_last.op = "send_attach"
    /\ link_last.result = Ok
    /\ Len(link_writer) = 1
    /\ link_writer[1].unsettled = Some(ResumedUnsettled)
    /\ link_writer[1].max_message_size = None
    /\ link_fields.max_message_size = 0

\* the Detach frames the link has written
DetachesEmitted == { i \in 1 .. Len(link_writer) : link_writer[i].perf = "Detach" }

\* C32: a send_detach that succeeds emits one Detach with the link's local
\* handle and the caller's closed flag and error, releases the local handle
\* and leaves the unsettled map as it was, whatever closed is; a send_detach
\* after it fails with illegal-state and emits nothing.
C32_DetachCarriesClosedAndError ==
    [][ ( LinkStep /\ link_last'.op = "send_detach" )
        => /\ link_last'.result = Ok
              => /\ output_handle # None
                 /\ link_writer' =
                      Append(link_writer,
                             [ LinkFrame("Detach", output_handle[1]) EXCEPT
                                 !.closed = link_last'.closed,
                                 !.error = link_last'.error ])
                 /\ output_handle' = None
           /\ link_fields'.unsettled = link_fields.unsettled
           /\ DetachesEmitted # {}
              => /\ link_last'.result = ErrIllegalState
                 /\ UNCHANGED link_writer ]_vars

\* a resumed link was suspended with an error, its unsettled map kept, and
\* the send_detach that followed failed
C32_Witness ==
    /\ link_ops = 2
    /\ link_last.op = "send_detach"
    /\ link_last.result = ErrIllegalState
    /\ Len(link_writer) = 1
    /\ link_writer[1].perf = "Detach"
    /\ link_writer[1].closed = FALSE
    /\ link_writer[1].error = Some("amqp:internal-error")
    /\ output_handle = None
    /\ link_fields.unsettled = ResumedUnsettled

\* C33: a send_attach or send_detach that returns an error leaves the
\* link's local state and its output handle as they were before the call.
C33_FailedSendChangesNothing ==
    [][ ( LinkStep
          /\ link_last'.op \in { "send_attach", "send_detach" }
          /\ link_last'.result # Ok )
        => UNCHANGED << link_state, output_handle >> ]_vars

\* recv() returned an error
RecvErrorStep == CoordStep /\ coord_last'.kind = "RecvError"

\* C34: when recv() fails the coordinator stops; a transfer that breaks the
\* rules closes the link with amqp:not-allowed, transfer-limit-exceeded
\* closes it with that link error, an illegal local link state closes it
\* with amqp:illegal-state, a remote detach or close, with or without an
\* error, is answered with a closing Detach without error, and a dropped
\* session sends nothing.
C34_RecvErrorStopsAndReactsByKind ==
    [][ RecvErrorStep
        => LET error == coord_last'.error IN
           /\ coord_pc' = "stopped"
           /\ UNCHANGED << coord_dispositions, coord_requests >>
           /\ error \in { "DeliveryIdIsNone", "DeliveryTagIsNone",
                          "IllegalRcvSettleModeInTransfer",
                          "InconsistentFieldInMultiFrameDelivery" }
              => coord_link' = "Closed" /\ coord_close_error' = ErrNotAllowed
           /\ error = "TransferLimitExceeded"
              => /\ coord_link' = "Closed"
                 /\ coord_close_error' = "amqp:link:transfer-limit-exceeded"
           /\ error = "IllegalState"
              => coord_link' = "Closed" /\ coord_close_error' = ErrIllegalState
           /\ error \in { "RemoteDetached", "RemoteDetachedWithError",
                          "RemoteClosed", "RemoteClosedWithError" }
              => coord_link' = "Detached" /\ coord_close_error' = Ok
           /\ error = "IllegalSessionState"
              => UNCHANGED << coord_link, coord_close_error >> ]_vars

\* after a Declare was answered the remote peer closed the link with an
\* error, and the coordinator sent its closing Detach and stopped
C34_Witness ==
    /\ coord_pc = "stopped"
    /\ coord_last.kind = "RecvError"
    /\ coord_last.error = "RemoteClosedWithError"
    /\ coord_link = "Detached"
    /\ coord_close_error = Ok
    /\ Len(coord_dispositions) = 1

\* recv() returned a delivery
DeliveryStep == CoordStep /\ coord_last'.kind # "RecvError"

\* the step emitted one disposition, for the delivery received
DisposedDelivery ==
    /\ Len(coord_dispositions') = Len(coord_dispositions) + 1
    /\ SubSeq(coord_dispositions', 1, Len(coord_dispositions)) = coord_dispositions
    /\ coord_dispositions'[Len(coord_dispositions')].delivery_id = coord_last'.delivery_id
    /\ coord_dispositions'[Len(coord_dispositions')].state
         \in { "Declared", "Accepted", "Rejected" }

\* C35: a delivery gets at most one disposition, Declared, Accepted or
\* Rejected; the coordinator keeps running exactly when it emitted that
\* disposition, which it does only on an attached link of a live session;
\* once it has closed its link or met a dropped session it takes no
\* further delivery.
C35_OneDispositionAndRunsOnlyAfterIt ==
    [][ /\ DeliveryStep
           => /\ DisposedDelivery \/ UNCHANGED coord_dispositions
              /\ coord_pc' = "running" <=> DisposedDelivery
              /\ DisposedDelivery
                 => coord_session = "alive" /\ coord_link = "Attached"
              /\ \A i \in 1 .. Len(coord_dispositions) :
                   coord_dispositions[i].delivery_id # coord_last'.delivery_id
        /\ CoordStep => coord_pc = "running" /\ coord_link = "Attached"
        /\ coord_pc = "stopped" => UNCHANGED << coord_dispositions, coord_requests, coord_n >>
      ]_vars

\* two deliveries were answered, the session dropped, and the third made
\* the coordinator stop without a disposition
C35_Witness ==
    /\ coord_pc = "stopped"
    /\ coord_session = "dropped"
    /\ coord_link = "Attached"
    /\ coord_n = 3
    /\ coord_last.kind = "Declare"
    /\ Len(coord_dispositions) = 2
    /\ coord_dispositions[1].delivery_id # coord_dispositions[2].delivery_id

\* open waited for the first frame
OpenWaited == pc = "open_wait" /\ pc' # "open_wait"

\* C36: open returns an engine only after the local Open was sent and the
\* first frame received was the peer's Open; any other first frame makes it
\* fail with illegal-state; a stream that ends before a frame arrives makes
\* it fail with an error: open returns, it does not panic or hang.
C36_OpenReturnsEngineOrError ==
    [][ OpenWaited
        => /\ pc' \in { "loop", "failed" }
           /\ pc' = "loop"
              => /\ ev'.frame.body.perf = "Open"
                 /\ \E i \in 1 .. Len(wire) : wire[i].body.perf = "Open"
           /\ pc' = "failed" => result' # Ok /\ local_state' # "Opened"
           /\ ( ev'.src = "open" /\ ev'.error = Ok /\ ev'.frame.body.perf # "Open" )
              => pc' = "failed" /\ result' = ErrIllegalState ]_vars

\* on_control took an AllocateSession command
AllocateStep ==
    pc = "loop" /\ ev'.src = "control" /\ ev'.control.kind = "AllocateSession"

\* the reply an AllocateSession command is due: a channel and session id
\* not in use on an Opened connection with a free channel, illegal-state on
\* a connection that is not Opened, channel-max-reached otherwise
AllocateReplyDue(reply) ==
    IF local_state # "Opened"
    THEN reply = Response(ErrIllegalState, NoChannel, NoSession)
    ELSE IF Channels \ local_sessions = { }
    THEN reply = Response(ErrChannelMax, NoChannel, NoSession)
    ELSE /\ reply.error = Ok
         /\ reply.session_id \in Channels \ local_sessions
         /\ reply.channel = reply.session_id
         /\ local_sessions' = local_sessions \cup { reply.session_id }

\* the step sent one reply
Replied == Len(responses') = Len(responses) + 1

\* what holds of every AllocateSession command: one reply at most, the one
\* due; a failed allocation allocates nothing, leaves the engine running
\* and the connection state and the wire alone
AllocateRepliesAsDue ==
    /\ Replied \/ UNCHANGED responses
    /\ Replied
       => /\ responses' = Append(responses, responses'[Len(responses')])
          /\ AllocateReplyDue(responses'[Len(responses')])
          /\ result' = Ok
    /\ ( Replied /\ responses'[Len(responses')].error # Ok )
       => /\ UNCHANGED local_sessions
          /\ pc' = "loop"
    /\ UNCHANGED << local_state, wire >>

\* C37 as stated: every AllocateSession command gets exactly one reply on
\* its responder, the allocated channel and session id or the allocation
\* error; a failed allocation goes to the requester only and neither stops
\* the engine nor changes the connection state.
C37_AllocateAlwaysReplied ==
    [][ AllocateStep => ( Replied /\ AllocateRepliesAsDue ) ]_vars

\* C37, amended: the command gets that one reply when its requester still
\* holds the responder; when the requester is gone no reply is delivered
\* and on_control fails with an I/O error.
C37_AllocateRepliedToLiveRequester ==
    [][ AllocateStep
        => /\ AllocateRepliesAsDue
           /\ ~ Replied => result' = ErrIo ]_vars

\* two sessions were allocated and the third request was refused with
\* channel-max-reached, the engine still running
C37_Witness ==
    /\ pc = "loop"
    /\ local_state = "Opened"
    /\ Len(responses) = 3
    /\ responses[1].error = Ok
    /\ responses[2].error = Ok
    /\ responses[1].session_id # responses[2].session_id
    /\ responses[3] = Response(ErrChannelMax, NoChannel, NoSession)

\* a remote Open was processed: by open, or by on_incoming in the event loop
RemoteOpenProcessed ==
    /\ ev'.src \in { "open", "incoming" }
    /\ ev' # ev
    /\ ev'.frame.body.perf = "Open"
    /\ result' = Ok

C39_TooLongYieldsFrameSizeTooSmall ==
    [][ ( PollStep /\ framed # << >> )
        => /\ Head(framed) = "TooLong" => LastPolled = ErrFrameSize
           /\ Head(framed) \in { "Frame", "Empty" } => LastPolled = Head(framed) ]_vars

\* connect_sasl read a Challenge
ChallengeRead ==
    /\ Len(sasl_log') > Len(sasl_log)
    /\ sasl_log'[Len(sasl_log) + 1].dir = "read"
    /\ sasl_log'[Len(sasl_log) + 1].frame.kind = "Challenge"

\* C40: for each Challenge it receives the client sends one Response
\* before it waits for the next frame of the server, so that the
\* negotiation does not wait forever after a Challenge.
C40_ChallengeAnsweredWithResponse ==
    [][ ChallengeRead
        => /\ Len(sasl_log') = Len(sasl_log) + 2
           /\ sasl_log'[Len(sasl_log) + 2].dir = "write"
           /\ sasl_log'[Len(sasl_log) + 2].frame.kind = "Response" ]_vars

====
